---- MODULE Spec2Model ----
(***************************************************************************)
(* Model of the quiz arcade engine of src/components/quiz-game/            *)
(* quiz-game.tsx: the requestAnimationFrame game loop (gameLoop), the      *)
(* primary-action handler (handleCanvasClick / jump) and the score         *)
(* helpers of src/lib/game-data.ts.                                        *)
(*                                                                         *)
(* Numbers.  Horizontal positions are whole pixels.  The bird's y is kept  *)
(* in sixteenths of a pixel and its velocity in eighths of a pixel per     *)
(* frame, the elapsed-time factor deltaTime in halves; with these units    *)
(* every product the loop computes is an exact integer.  Times are         *)
(* milliseconds.                                                           *)
(*                                                                         *)
(* Presentation-only fields of GameState (bird.frame, frameCount,          *)
(* scrollProgress) are never read by a transition and are left out;        *)
(* questionPreviewProgress is recomputed from the elapsed time in the tick *)
(* that reads it.  phaseStartTime is kept as `elapsed`, the time since the *)
(* phase was entered, and lastJumpTimeRef as `sinceJump`, the time since   *)
(* the last accepted call of jump(); both saturate at the largest value    *)
(* any comparison in the code distinguishes.                               *)
(***************************************************************************)
EXTENDS Integers, Sequences, FiniteSets, TLC

\* ------------------------------------------------------------------------
\* Program constants (quiz-game.tsx lines 8-52)
\* ------------------------------------------------------------------------
CANVAS_WIDTH == 288
CANVAS_HEIGHT == 512
\* GRAVITY = 0.5 px/frame^2, in eighths
GRAVITY_8 == 4
\* JUMP_STRENGTH = 9 px/frame, in eighths
JUMP_STRENGTH_8 == 72
BIRD_WIDTH == 34
BIRD_HEIGHT == 24
TARGET_FPS == 60
\* MAX_DELTA_TIME = 1.5, in halves
MAX_DELTA_TIME_2 == 3
JUMP_COOLDOWN == 150
PIPE_WIDTH == 52
PIPE_SPEED == 2
PIPE_SPAWN_X == CANVAS_WIDTH + 20
PIPE_GAP_NORMAL == 200
MIDDLE_PIPE_HEIGHT == 30
SLOT_HEIGHT == 160
NORMAL_PIPES_BETWEEN_QUESTIONS == 5
SCROLL_HEIGHT == 110
SCROLL_Y == CANVAS_HEIGHT - SCROLL_HEIGHT - 10
PLAY_AREA_TOP == 0
PLAY_AREA_BOTTOM == CANVAS_HEIGHT
PIPE_AREA_TOP == 50
PIPE_AREA_BOTTOM == SCROLL_Y - 20
CHAPTER_INTRO_TIME == 3000
QUESTION_PREVIEW_TIME == 3000
AUTO_FLY_TIME == 4000
\* x of the bird's left edge: the literal 50 of checkCollision and gameLoop
BIRD_LEFT == 50
\* the literal 100 of the game_over branch: pipes with x <= 100 are dropped
BUFFER_X == 100
\* the literal 180 of the plain spawn rule
SPAWN_SPACING == 180
\* the literal -50 of the off-screen filter
OFFSCREEN_X == -50
\* amplitude (px) of the scripted sine path of auto_fly and of the idle bob
FLY_AMPLITUDE == 40
BOB_AMPLITUDE == 3

\* bird.y is kept in sixteenths of a pixel
YUnit == 16

\* ------------------------------------------------------------------------
\* Bounds of the exploration
\* ------------------------------------------------------------------------
\* number of crash retries explored in one run (between restarts)
MaxRetries == 1
\* the falling bird of game_over is followed until this velocity (eighths),
\* and in any case until it has been put on the floor
MaxFallVelocity == 24
\* Math.random() is drawn as n / RandomDen
RandomDen == 122

\* chapter lists handed to the engine: a chapter is the sequence of its
\* questions' answers
ChapterLists == { << <<TRUE>> >>, << <<TRUE, FALSE>> >>, << <<FALSE>>, <<TRUE>> >> }
\* chapter lists with a chapter that has no question
MalformedLists == { << << >>, <<TRUE>> >>, << <<TRUE>>, << >> >> }
\* draws of Math.random() (numerators over RandomDen)
RandomDraws == {0}
\* frame durations in ms (a slow device: every frame is clamped to MAX_DELTA_TIME)
FrameDurations == {80}
\* an input handler or the asset callback stamps phaseStartTime with its own
\* performance.now(), which lies lead ms after the time stamp of the frame
\* before it: the phase clock then starts at -lead on the frame grid
EntryLeads == {0, 40}
\* sampled values of the sine of the scripted flight paths
SineSamples == {-1, 1}
\* altitude the player holds: a tap arrives only while the bird is below it
YesLine == 135
NoLine == 325
\* a line so high that the jump from it leaves the play area at the top
TopLine == 60
Aims == {"yes", "no", "fall", "top"}
\* after a crash the player may also resume with "hop": one tap within
\* HopTime ms of the opening of a question preview, and no other tap
RetryAims == Aims \cup {"hop"}
HopTime == 80

SingleChapter == << <<TRUE>> >>

Min(a, b) == IF a < b THEN a ELSE b
Max(a, b) == IF a > b THEN a ELSE b

RECURSIVE SumLen(_)
SumLen(cs) == IF cs = << >> THEN 0 ELSE Len(Head(cs)) + SumLen(Tail(cs))

\* ------------------------------------------------------------------------
\* game-data.ts
\* ------------------------------------------------------------------------
createInitialScore(cs) ==
  [ chapterScores |-> [i \in 1..Len(cs) |-> [correct |-> 0, total |-> Len(cs[i])]],
    totalCorrect |-> 0,
    totalQuestions |-> SumLen(cs) ]

\* SAMPLE_GAME_DATA (line 109): three chapters of four questions
SAMPLE_GAME_DATA ==
  << <<TRUE, FALSE, TRUE, FALSE>>, <<FALSE, TRUE, TRUE, TRUE>>, <<TRUE, FALSE, TRUE, TRUE>> >>

getGameData == SAMPLE_GAME_DATA

\* the chapters prop: `given` is false when the prop is absent
Supplied(cs) == [ given |-> TRUE, list |-> cs ]
Absent == [ given |-> FALSE, list |-> << >> ]

\* the length test left out: an empty list is taken as it is
chaptersState_NoLengthTest(prop) ==
  IF prop.given THEN prop.list ELSE getGameData

\* the initializer of the chapters state (line 128):
\* propChapters && propChapters.length > 0 ? propChapters : getGameData(topics)
chaptersState(prop) ==
  IF prop.given /\ Len(prop.list) > 0 THEN prop.list ELSE getGameData

\* ------------------------------------------------------------------------
\* Obstacle generator and collision test
\* ------------------------------------------------------------------------
BirdCentreY == (PIPE_AREA_TOP + PIPE_AREA_BOTTOM) \div 2

\* the gap top drawn over the whole pipe band
createNormalPipe_FullBand(rnd) ==
  LET minGapTop == PIPE_AREA_TOP
      maxGapTop == PIPE_AREA_BOTTOM
      gapTop == minGapTop + (rnd * (maxGapTop - minGapTop)) \div RandomDen
  IN [ x |-> PIPE_SPAWN_X, type |-> "normal",
       gapTop |-> gapTop, gapBottom |-> gapTop + PIPE_GAP_NORMAL,
       passed |-> FALSE, scored |-> FALSE ]

\* Math.random() is the draw rnd / RandomDen; the gap top is rounded down to
\* a whole pixel
createNormalPipe(rnd) ==
  LET minGapTop == PIPE_AREA_TOP
      maxGapTop == PIPE_AREA_BOTTOM - PIPE_GAP_NORMAL
      gapTop == minGapTop + (rnd * (maxGapTop - minGapTop)) \div RandomDen
  IN [ x |-> PIPE_SPAWN_X, type |-> "normal",
       gapTop |-> gapTop, gapBottom |-> gapTop + PIPE_GAP_NORMAL,
       passed |-> FALSE, scored |-> FALSE ]

createQuestionPipe ==
  LET pipeHeight == PIPE_AREA_BOTTOM - PIPE_AREA_TOP
      totalNeeded == SLOT_HEIGHT * 2 + MIDDLE_PIPE_HEIGHT
      topOffset == PIPE_AREA_TOP + (pipeHeight - totalNeeded) \div 2
  IN [ x |-> PIPE_SPAWN_X, type |-> "question",
       topPipeBottom |-> topOffset,
       middlePipeTop |-> topOffset + SLOT_HEIGHT,
       middlePipeBottom |-> topOffset + SLOT_HEIGHT + MIDDLE_PIPE_HEIGHT,
       bottomPipeTop |-> topOffset + SLOT_HEIGHT * 2 + MIDDLE_PIPE_HEIGHT,
       passed |-> FALSE, scored |-> FALSE, questionAnswered |-> FALSE ]

checkCollision(bird, pipe) ==
  LET birdLeft == BIRD_LEFT
      birdRight == BIRD_LEFT + BIRD_WIDTH
      birdTop == bird.y
      birdBottom == bird.y + BIRD_HEIGHT * YUnit
  IN IF birdRight < pipe.x \/ birdLeft > pipe.x + PIPE_WIDTH
       THEN FALSE
       ELSE IF pipe.type = "normal"
         THEN birdTop < pipe.gapTop * YUnit \/ birdBottom > pipe.gapBottom * YUnit
         ELSE \/ birdTop < pipe.topPipeBottom * YUnit
              \/ (birdTop < pipe.middlePipeBottom * YUnit /\ birdBottom > pipe.middlePipeTop * YUnit)
              \/ birdBottom > pipe.bottomPipeTop * YUnit


\* ------------------------------------------------------------------------
\* State
\* ------------------------------------------------------------------------
VARIABLES
  state,            \* gameStateRef.current
  propChapters,     \* the chapters prop handed to the component
  loopAlive,        \* the game loop has been started and has not thrown
  chapters,         \* the chapter list of the component (useState, line 128)
  assets,           \* outcome of the asset Promise.all: pending, loaded, failed
  elapsed,          \* time since state.phaseStartTime, saturating at AUTO_FLY_TIME
  sinceJump,        \* time since lastJumpTimeRef, saturating at JUMP_COOLDOWN
  sinceInput,       \* time since the last primary action (observer)
  impulseAge,       \* time since an input last set the bird's velocity (observer)
  aim,              \* the altitude the player currently holds
  retries,          \* crash retries taken since the last restart (observer)
  onCompleteCalls,  \* invocations of the onComplete prop
  answeredCorrect,  \* <<chapter, question>> pairs answered correctly (observer)
  freeFall,         \* frames of flight since the bird was at rest, no impulse since (observer)
  phaseWrites,      \* assignments to state.phase made by the last frame (observer)
  onboarding,       \* the state of the OnboardingFlow component, its request and its timers
  onboardingData    \* the onboardingData state of Page: the result handed over, if any

vars == << state, propChapters, chapters, loopAlive, assets, elapsed, sinceJump, sinceInput, impulseAge, aim, retries,
           onCompleteCalls, answeredCorrect, freeFall, phaseWrites, onboarding, onboardingData >>

FlightPhases == {"playing", "question_preview"}

CentreBird == [ y |-> BirdCentreY * YUnit, velocity |-> 0 ]

\* the free-flight observer: n frames of playing or question_preview have
\* run since the bird was put at rest at y0, with no impulse in between;
\* n = -1 when the bird is not in such a flight
NoFreeFall == [ n |-> -1, y0 |-> 0 ]
AtRest(bird) == [ n |-> 0, y0 |-> bird.y ]

\* the object literal of useRef<GameState> (lines 140-154) and of the
\* restart branch (lines 1305-1319), which differ in phase and in
\* pipesSinceLastQuestion only
InitialGameState(cs, ph, since) ==
  [ phase |-> ph,
    bird |-> CentreBird,
    pipes |-> << >>,
    chapterIndex |-> 0,
    questionIndex |-> 0,
    score |-> createInitialScore(cs),
    displayScore |-> 0,
    pipesSinceLastQuestion |-> since,
    currentQuestionActive |-> FALSE ]

\* the data of the onboarding form (useState, lines 80-85); topics holds
\* the number of topics selected
NoData == [ location |-> "", topics |-> 0, knowledgeLevel |-> "", userType |-> "" ]

\* the quiz generation request: what handleNext sent, and whether its
\* promise has settled
NoRequest == [ status |-> "none", topics |-> 0, location |-> "" ]

\* the OnboardingFlow component at its first render (useState, lines 78-90);
\* stepIndex and interval belong to the loading effect (lines 96, 98)
OnboardingFlowState ==
  [ mounted |-> TRUE,
    showVideo |-> TRUE,
    step |-> 0,
    data |-> NoData,
    locationInput |-> "",
    loadingStep |-> 0,
    completedLoadingSteps |-> << >>,
    isGenerating |-> FALSE,
    generatedChapters |-> << >>,
    isGenerated |-> FALSE,
    stepIndex |-> 0,
    interval |-> FALSE,
    request |-> NoRequest ]

\* Page does not render OnboardingFlow
OnboardingUnmounted == [ OnboardingFlowState EXCEPT !.mounted = FALSE ]

\* the onboardingData state of Page: null at first (useState, line 182)
NoResult ==
  [ given |-> FALSE, topics |-> 0, location |-> "", knowledgeLevel |-> "", userType |-> "",
    chapters |-> << >>, isGenerated |-> FALSE ]

\* the object literal handed to onComplete (lines 125-132, 207-214)
OnboardingResult(d, cs, gen) ==
  [ given |-> TRUE, topics |-> d.topics, location |-> d.location, knowledgeLevel |-> d.knowledgeLevel,
    userType |-> d.userType, chapters |-> cs, isGenerated |-> gen ]

\* the state of QuizGame after construction, whatever the prop
QuizGameConstructed ==
  /\ chapters = chaptersState(propChapters)
  /\ state = InitialGameState(chapters, "loading", 0)
  /\ loopAlive = FALSE
  /\ assets = "pending"
  /\ elapsed = 0
  /\ sinceJump = JUMP_COOLDOWN
  /\ sinceInput = JUMP_COOLDOWN
  /\ impulseAge = JUMP_COOLDOWN
  /\ aim = "fall"
  /\ retries = 0
  /\ onCompleteCalls = 0
  /\ answeredCorrect = {}
  /\ freeFall = NoFreeFall
  /\ phaseWrites = 0

\* QuizGame on its own, under any parent: no onboarding component is
\* mounted beside it
Constructed ==
  /\ QuizGameConstructed
  /\ onboarding = OnboardingUnmounted
  /\ onboardingData = NoResult

\* validated content is supplied
Init ==
  /\ propChapters \in { Supplied(cs): cs \in ChapterLists }
  /\ Constructed

\* ------------------------------------------------------------------------
\* Clock
\* ------------------------------------------------------------------------
\* the clamp to MAX_DELTA_TIME left out
deltaTime2_Unclamped(ms) == (ms * 2 * TARGET_FPS) \div 1000

\* deltaTime = min((currentTime - lastFrameTime) / (1000 / TARGET_FPS), MAX_DELTA_TIME), in halves
deltaTime2(ms) == Min((ms * 2 * TARGET_FPS) \div 1000, MAX_DELTA_TIME_2)

\* phases whose transitions read the elapsed time; in the other phases it
\* feeds scrollProgress only and is not followed
TimedPhases == {"chapter_intro", "auto_fly", "question_preview"}

\* currentTime - state.phaseStartTime at a frame that comes ms after the last one
Elapsed(ms) == Min(elapsed + ms, AUTO_FLY_TIME)

\* every tick that changes the phase stores currentTime in phaseStartTime
Clock(ms, s) ==
  /\ elapsed' = IF s.phase # state.phase \/ s.phase \notin TimedPhases THEN 0 ELSE Elapsed(ms)
  /\ sinceJump' = Min(sinceJump + ms, JUMP_COOLDOWN)
  /\ sinceInput' = Min(sinceInput + ms, JUMP_COOLDOWN)
  /\ impulseAge' = Min(impulseAge + ms, JUMP_COOLDOWN)

\* the observer after a frame of a flight phase that ends in phase ph
FreeFallTick(ph) ==
  IF freeFall.n >= 0 /\ ph \in FlightPhases
  THEN [freeFall EXCEPT !.n = @ + 1]
  ELSE NoFreeFall

\* the position advanced with the velocity of the frame before
Physics_PositionFirst(bird, dt2) ==
  [ y |-> bird.y + bird.velocity * dt2, velocity |-> bird.velocity + (GRAVITY_8 * dt2) \div 2 ]

\* the bird after velocity += GRAVITY * dt; y += velocity * dt
Physics(bird, dt2) ==
  LET v == bird.velocity + (GRAVITY_8 * dt2) \div 2
  IN [ y |-> bird.y + v * dt2, velocity |-> v ]

\* the floor test left out
OutOfBounds_TopOnly(bird) ==
  bird.y < PLAY_AREA_TOP * YUnit

OutOfBounds(bird) ==
  \/ bird.y < PLAY_AREA_TOP * YUnit
  \/ bird.y + BIRD_HEIGHT * YUnit > PLAY_AREA_BOTTOM * YUnit

MovePipe(pipe, dt2) == [pipe EXCEPT !.x = @ - (PIPE_SPEED * dt2) \div 2]

OnScreen(pipes) == SelectSeq(pipes, LAMBDA p: p.x + PIPE_WIDTH > OFFSCREEN_X)

\* the negation of `passed` dropped
hasQuestionPipeOnScreen_Passed(pipes) ==
  \E i \in 1..Len(pipes): pipes[i].type = "question" /\ pipes[i].passed

hasQuestionPipeOnScreen(pipes) ==
  \E i \in 1..Len(pipes): pipes[i].type = "question" /\ ~pipes[i].passed

\* ------------------------------------------------------------------------
\* gameLoop, case "playing": the body of `for (const pipe of state.pipes)`
\* for the pipe at index i.  r.s is the game state, r.halt is set by a
\* `break`; r.ev records an answer registered in this frame and r.pass that
\* some pipe became passed in it.
\* ------------------------------------------------------------------------
\* the slot bounds swapped: the upper slot read as NO
SlotEntered_Swapped(bird, pipe) ==
  LET inYesSlot == /\ bird.y > pipe.middlePipeBottom * YUnit
                   /\ bird.y + BIRD_HEIGHT * YUnit < pipe.bottomPipeTop * YUnit
      inNoSlot == /\ bird.y > pipe.topPipeBottom * YUnit
                  /\ bird.y + BIRD_HEIGHT * YUnit < pipe.middlePipeTop * YUnit
  IN IF inYesSlot THEN "yes" ELSE IF inNoSlot THEN "no" ELSE "none"

\* which slot the bird lies in (lines 1068-1071)
SlotEntered(bird, pipe) ==
  LET inYesSlot == /\ bird.y > pipe.topPipeBottom * YUnit
                   /\ bird.y + BIRD_HEIGHT * YUnit < pipe.middlePipeTop * YUnit
      inNoSlot == /\ bird.y > pipe.middlePipeBottom * YUnit
                  /\ bird.y + BIRD_HEIGHT * YUnit < pipe.bottomPipeTop * YUnit
  IN IF inYesSlot THEN "yes" ELSE IF inNoSlot THEN "no" ELSE "none"

\* the chapter's counter credited without totalCorrect
AnswerCorrect_ChapterOnly(r, i) ==
  [r EXCEPT !.s.pipes[i].questionAnswered = TRUE,
            !.s.score.chapterScores[r.s.chapterIndex + 1].correct = @ + 1,
            !.s.displayScore = @ + 5,
            !.ev = "correct"]

\* the bonus of a plain pass given for a correct answer
AnswerCorrect_PassBonus(r, i) ==
  [r EXCEPT !.s.pipes[i].questionAnswered = TRUE,
            !.s.score.chapterScores[r.s.chapterIndex + 1].correct = @ + 1,
            !.s.score.totalCorrect = @ + 1,
            !.s.displayScore = @ + 1,
            !.ev = "correct"]

\* the `if (correct)` branch (lines 1078-1082)
AnswerCorrect(r, i) ==
  [r EXCEPT !.s.pipes[i].questionAnswered = TRUE,
            !.s.score.chapterScores[r.s.chapterIndex + 1].correct = @ + 1,
            !.s.score.totalCorrect = @ + 1,
            !.s.displayScore = @ + 5,
            !.ev = "correct"]

\* the penalty taken without the floor at 0
AnswerWrong_NoFloor(r, i) ==
  [r EXCEPT !.s.pipes[i].questionAnswered = TRUE,
            !.s.displayScore = @ - 2,
            !.ev = "wrong"]

\* the else branch (lines 1083-1086)
AnswerWrong(r, i) ==
  [r EXCEPT !.s.pipes[i].questionAnswered = TRUE,
            !.s.displayScore = Max(0, @ - 2),
            !.ev = "wrong"]

\* currentQuestion is undefined: reading currentQuestion.answer throws a
\* TypeError after the pipe has been marked answered (lines 1074-1076)
AnswerThrows(r, i) ==
  [r EXCEPT !.s.pipes[i].questionAnswered = TRUE, !.ev = "threw", !.halt = TRUE]

\* the test of questionAnswered left out: the slot is read in every frame
AnswerStep_NoLock(r, i, ans) ==
  LET s == r.s
      pipe == s.pipes[i]
      birdRight == BIRD_LEFT + BIRD_WIDTH
      overlap == birdRight > pipe.x /\ BIRD_LEFT < pipe.x + PIPE_WIDTH
  IN IF pipe.type = "question" /\ overlap
     THEN LET slot == SlotEntered(s.bird, pipe)
              selectedYes == (slot = "yes")
              correct == (ans = {selectedYes})
          IN IF slot # "none"
             THEN IF ans = {}
                  THEN AnswerThrows(r, i)
                  ELSE IF correct THEN AnswerCorrect(r, i) ELSE AnswerWrong(r, i)
             ELSE r
     ELSE r

\* ans is the set holding currentQuestion.answer, empty when currentQuestion
\* is undefined
AnswerStep(r, i, ans) ==
  LET s == r.s
      pipe == s.pipes[i]
      birdRight == BIRD_LEFT + BIRD_WIDTH
      overlap == birdRight > pipe.x /\ BIRD_LEFT < pipe.x + PIPE_WIDTH
  IN IF pipe.type = "question" /\ ~pipe.questionAnswered /\ overlap
     THEN LET slot == SlotEntered(s.bird, pipe)
              selectedYes == (slot = "yes")
              correct == (ans = {selectedYes})
          IN IF slot # "none"
             THEN IF ans = {}
                  THEN AnswerThrows(r, i)
                  ELSE IF correct THEN AnswerCorrect(r, i) ELSE AnswerWrong(r, i)
             ELSE r
     ELSE r

\* the plain-obstacle counter not reset by a passed Question obstacle
PassStep_KeepCounter(r, i, nq) ==
  LET s == r.s
      pipe == s.pipes[i]
  IN IF ~pipe.passed /\ pipe.x + PIPE_WIDTH < BIRD_LEFT
     THEN IF pipe.type = "normal"
          THEN IF ~pipe.scored
               THEN [r EXCEPT !.s.pipes[i].passed = TRUE,
                              !.s.pipes[i].scored = TRUE,
                              !.s.displayScore = @ + 1,
                              !.s.pipesSinceLastQuestion = @ + 1,
                              !.pass = TRUE]
               ELSE [r EXCEPT !.s.pipes[i].passed = TRUE, !.pass = TRUE]
          ELSE IF s.questionIndex < nq - 1
               THEN [r EXCEPT !.s.pipes[i].passed = TRUE,
                              !.pass = TRUE,
                              !.s.currentQuestionActive = FALSE,
                              !.s.questionIndex = @ + 1]
               ELSE [r EXCEPT !.s.pipes[i].passed = TRUE,
                              !.pass = TRUE,
                              !.s.currentQuestionActive = FALSE,
                              !.s.phase = "chapter_complete",
                              !.halt = TRUE]
     ELSE r

\* the index advanced past the last question of the chapter
PassStep_AlwaysNext(r, i, nq) ==
  LET s == r.s
      pipe == s.pipes[i]
  IN IF ~pipe.passed /\ pipe.x + PIPE_WIDTH < BIRD_LEFT
     THEN IF pipe.type = "normal"
          THEN IF ~pipe.scored
               THEN [r EXCEPT !.s.pipes[i].passed = TRUE,
                              !.s.pipes[i].scored = TRUE,
                              !.s.displayScore = @ + 1,
                              !.s.pipesSinceLastQuestion = @ + 1,
                              !.pass = TRUE]
               ELSE [r EXCEPT !.s.pipes[i].passed = TRUE, !.pass = TRUE]
          ELSE IF s.questionIndex < nq
               THEN [r EXCEPT !.s.pipes[i].passed = TRUE,
                              !.pass = TRUE,
                              !.s.pipesSinceLastQuestion = 0,
                              !.s.currentQuestionActive = FALSE,
                              !.s.questionIndex = @ + 1]
               ELSE [r EXCEPT !.s.pipes[i].passed = TRUE,
                              !.pass = TRUE,
                              !.s.pipesSinceLastQuestion = 0,
                              !.s.currentQuestionActive = FALSE,
                              !.s.phase = "chapter_complete",
                              !.halt = TRUE]
     ELSE r

\* the pass handling of the playing loop (lines 1030-1059)
PassStep(r, i, nq) ==
  LET s == r.s
      pipe == s.pipes[i]
  IN IF ~pipe.passed /\ pipe.x + PIPE_WIDTH < BIRD_LEFT
     THEN IF pipe.type = "normal"
          THEN IF ~pipe.scored
               THEN [r EXCEPT !.s.pipes[i].passed = TRUE,
                              !.s.pipes[i].scored = TRUE,
                              !.s.displayScore = @ + 1,
                              !.s.pipesSinceLastQuestion = @ + 1,
                              !.pass = TRUE]
               ELSE [r EXCEPT !.s.pipes[i].passed = TRUE, !.pass = TRUE]
          ELSE IF s.questionIndex < nq - 1
               THEN [r EXCEPT !.s.pipes[i].passed = TRUE,
                              !.pass = TRUE,
                              !.s.pipesSinceLastQuestion = 0,
                              !.s.currentQuestionActive = FALSE,
                              !.s.questionIndex = @ + 1]
               ELSE [r EXCEPT !.s.pipes[i].passed = TRUE,
                              !.pass = TRUE,
                              !.s.pipesSinceLastQuestion = 0,
                              !.s.currentQuestionActive = FALSE,
                              !.s.phase = "chapter_complete",
                              !.halt = TRUE]
     ELSE r

PlayingBody(r, i, dt2, nq, ans) ==
  LET moved == [r EXCEPT !.s.pipes[i] = MovePipe(@, dt2)]
  IN IF checkCollision(moved.s.bird, moved.s.pipes[i])
     THEN [moved EXCEPT !.s.phase = "game_over", !.halt = TRUE]
     ELSE LET passed == PassStep(moved, i, nq)
          IN IF passed.halt THEN passed ELSE AnswerStep(passed, i, ans)

RECURSIVE PlayingLoop(_, _, _, _, _)
PlayingLoop(r, i, dt2, nq, ans) ==
  IF i > Len(r.s.pipes) \/ r.halt
  THEN r
  ELSE PlayingLoop(PlayingBody(r, i, dt2, nq, ans), i + 1, dt2, nq, ans)

\* the pass credited without setting the flags
PreviewBody_Unflagged(r, i, dt2) ==
  LET moved == [r EXCEPT !.s.pipes[i] = MovePipe(@, dt2)]
      pipe == moved.s.pipes[i]
  IN IF checkCollision(moved.s.bird, pipe)
     THEN [moved EXCEPT !.s.phase = "game_over", !.halt = TRUE, !.writes = @ + 1]
     ELSE IF pipe.type = "normal" /\ ~pipe.passed /\ pipe.x + PIPE_WIDTH < BIRD_LEFT
          THEN [moved EXCEPT !.s.displayScore = @ + 1,
                             !.s.pipesSinceLastQuestion = @ + 1,
                             !.pass = TRUE]
          ELSE moved

\* the collision test of the preview left out
PreviewBody_NoCollision(r, i, dt2) ==
  LET moved == [r EXCEPT !.s.pipes[i] = MovePipe(@, dt2)]
      pipe == moved.s.pipes[i]
  IN IF pipe.type = "normal" /\ ~pipe.passed /\ pipe.x + PIPE_WIDTH < BIRD_LEFT
     THEN IF ~pipe.scored
          THEN [moved EXCEPT !.s.pipes[i].passed = TRUE,
                             !.s.pipes[i].scored = TRUE,
                             !.s.displayScore = @ + 1,
                             !.s.pipesSinceLastQuestion = @ + 1,
                             !.pass = TRUE]
          ELSE [moved EXCEPT !.s.pipes[i].passed = TRUE, !.pass = TRUE]
     ELSE moved

\* gameLoop, case "question_preview": the body of the pipe loop
PreviewBody(r, i, dt2) ==
  LET moved == [r EXCEPT !.s.pipes[i] = MovePipe(@, dt2)]
      pipe == moved.s.pipes[i]
  IN IF checkCollision(moved.s.bird, pipe)
     THEN [moved EXCEPT !.s.phase = "game_over", !.halt = TRUE, !.writes = @ + 1]
     ELSE IF pipe.type = "normal" /\ ~pipe.passed /\ pipe.x + PIPE_WIDTH < BIRD_LEFT
          THEN IF ~pipe.scored
               THEN [moved EXCEPT !.s.pipes[i].passed = TRUE,
                                  !.s.pipes[i].scored = TRUE,
                                  !.s.displayScore = @ + 1,
                                  !.s.pipesSinceLastQuestion = @ + 1,
                                  !.pass = TRUE]
               ELSE [moved EXCEPT !.s.pipes[i].passed = TRUE, !.pass = TRUE]
          ELSE moved

RECURSIVE PreviewLoop(_, _, _)
PreviewLoop(r, i, dt2) ==
  IF i > Len(r.s.pipes) \/ r.halt
  THEN r
  ELSE PreviewLoop(PreviewBody(r, i, dt2), i + 1, dt2)


\* ------------------------------------------------------------------------
\* The asset loading effect (lines 209-235)
\* ------------------------------------------------------------------------
AssetsLoaded ==
  /\ assets = "pending"
  /\ assets' = "loaded"
  /\ state' = [state EXCEPT !.phase = "chapter_intro"]
  /\ elapsed' \in { -lead: lead \in EntryLeads }
  /\ loopAlive' = TRUE
  /\ UNCHANGED << freeFall, phaseWrites, propChapters, onboarding, onboardingData, chapters, sinceJump, sinceInput, impulseAge, aim, retries,
                  onCompleteCalls, answeredCorrect >>

\* the failure handled like a success
AssetsFailed_Starts ==
  /\ assets = "pending"
  /\ assets' = "failed"
  /\ state' = [state EXCEPT !.phase = "chapter_intro"]
  /\ loopAlive' = TRUE
  /\ UNCHANGED << freeFall, phaseWrites, propChapters, onboarding, onboardingData, chapters, elapsed, sinceJump, sinceInput, impulseAge, aim,
                  retries, onCompleteCalls, answeredCorrect >>

AssetsFailed ==
  /\ assets = "pending"
  /\ assets' = "failed"
  /\ UNCHANGED << freeFall, phaseWrites, state, propChapters, onboarding, onboardingData, chapters, loopAlive, elapsed, sinceJump, sinceInput, impulseAge, aim, retries,
                  onCompleteCalls, answeredCorrect >>

\* ------------------------------------------------------------------------
\* gameLoop (lines 863-1242): one action per case of the phase switch.
\* The loop runs only once the assets are loaded (line 855).
\* ------------------------------------------------------------------------
currentChapter == chapters[state.chapterIndex + 1]
currentQuestion == currentChapter[state.questionIndex + 1]
\* currentChapter?.questions[state.questionIndex] as the set of its answer:
\* empty when the index is out of range (undefined)
questionAt(ch, qi) == IF qi + 1 \in DOMAIN ch THEN {ch[qi + 1]} ELSE {}

\* the intro left as soon as CHAPTER_INTRO_TIME is reached
TickChapterIntro_AtLeast(ms) ==
  /\ assets = "loaded"
  /\ state.phase = "chapter_intro"
  /\ LET s == IF Elapsed(ms) >= CHAPTER_INTRO_TIME
              THEN [state EXCEPT !.phase = "ready_to_play",
                                 !.bird = CentreBird,
                                 !.pipes = << >>,
                                 !.pipesSinceLastQuestion = NORMAL_PIPES_BETWEEN_QUESTIONS,
                                 !.currentQuestionActive = FALSE]
              ELSE state
     IN /\ state' = s
        /\ Clock(ms, s)
  /\ phaseWrites' = IF state'.phase # state.phase THEN 1 ELSE 0
  /\ UNCHANGED << freeFall, propChapters, onboarding, onboardingData, chapters, loopAlive, assets, aim, retries, onCompleteCalls, answeredCorrect >>

TickChapterIntro(ms) ==
  /\ assets = "loaded"
  /\ state.phase = "chapter_intro"
  /\ LET s == IF Elapsed(ms) > CHAPTER_INTRO_TIME
              THEN [state EXCEPT !.phase = "ready_to_play",
                                 !.bird = CentreBird,
                                 !.pipes = << >>,
                                 !.pipesSinceLastQuestion = NORMAL_PIPES_BETWEEN_QUESTIONS,
                                 !.currentQuestionActive = FALSE]
              ELSE state
     IN /\ state' = s
        /\ Clock(ms, s)
  /\ phaseWrites' = IF state'.phase # state.phase THEN 1 ELSE 0
  /\ UNCHANGED << freeFall, propChapters, onboarding, onboardingData, chapters, loopAlive, assets, aim, retries, onCompleteCalls, answeredCorrect >>

\* bird.y = centre + sin(currentTime / 300) * 3: the sine is sampled
TickReadyToPlay(ms, sn) ==
  /\ assets = "loaded"
  /\ state.phase = "ready_to_play"
  /\ LET s == [state EXCEPT !.bird.y = (BirdCentreY + sn * BOB_AMPLITUDE) * YUnit]
     IN /\ state' = s
        /\ Clock(ms, s)
  /\ phaseWrites' = 0
  /\ UNCHANGED << freeFall, propChapters, onboarding, onboardingData, chapters, loopAlive, assets, aim, retries, onCompleteCalls, answeredCorrect >>

\* gravity applied to the bird during the scripted flight
TickAutoFly_Falling(ms, sn, a) ==
  /\ assets = "loaded"
  /\ state.phase = "auto_fly"
  /\ LET flown == [state EXCEPT !.bird = Physics(@, deltaTime2(ms))]
         done == Elapsed(ms) >= AUTO_FLY_TIME
         s == IF done
              THEN [flown EXCEPT !.pipes = Append(@, createQuestionPipe),
                                 !.phase = "playing",
                                 !.bird.velocity = 0]
              ELSE flown
     IN /\ state' = s
        /\ Clock(ms, s)
        /\ aim' = IF done THEN a ELSE aim
  /\ phaseWrites' = IF state'.phase # state.phase THEN 1 ELSE 0
  /\ freeFall' = IF state'.phase = "playing" THEN AtRest(state'.bird) ELSE freeFall
  /\ UNCHANGED << propChapters, onboarding, onboardingData, chapters, loopAlive, assets, retries, onCompleteCalls, answeredCorrect >>

\* bird.y = centre + sin(currentTime * 0.003) * 40: the sine is sampled
TickAutoFly(ms, sn, a) ==
  /\ assets = "loaded"
  /\ state.phase = "auto_fly"
  /\ LET flown == [state EXCEPT !.bird.y = (BirdCentreY + sn * FLY_AMPLITUDE) * YUnit]
         done == Elapsed(ms) >= AUTO_FLY_TIME
         s == IF done
              THEN [flown EXCEPT !.pipes = Append(@, createQuestionPipe),
                                 !.phase = "playing",
                                 !.bird.velocity = 0]
              ELSE flown
     IN /\ state' = s
        /\ Clock(ms, s)
        /\ aim' = IF done THEN a ELSE aim
  /\ phaseWrites' = IF state'.phase # state.phase THEN 1 ELSE 0
  /\ freeFall' = IF state'.phase = "playing" THEN AtRest(state'.bird) ELSE freeFall
  /\ UNCHANGED << propChapters, onboarding, onboardingData, chapters, loopAlive, assets, retries, onCompleteCalls, answeredCorrect >>

\* the preview triggered without the test for an active Question obstacle
PlayingFrame_NoActiveTest(s0, dt2, rnd, nq, ans) ==
  LET s == [s0 EXCEPT !.bird = Physics(@, dt2)]
      hasQ == hasQuestionPipeOnScreen(s.pipes)
  IN IF OutOfBounds(s.bird)
     THEN [s |-> [s EXCEPT !.phase = "game_over"], halt |-> TRUE, ev |-> "none", pass |-> FALSE]
     ELSE IF /\ s.pipesSinceLastQuestion >= NORMAL_PIPES_BETWEEN_QUESTIONS
             /\ s.questionIndex < nq
          THEN [s |-> [s EXCEPT !.phase = "question_preview", !.currentQuestionActive = TRUE],
                halt |-> TRUE, ev |-> "none", pass |-> FALSE]
          ELSE LET shouldSpawnPipe == \/ s.pipes = << >>
                                      \/ s.pipes[Len(s.pipes)].x < CANVAS_WIDTH - SPAWN_SPACING
                   spawn == shouldSpawnPipe /\ ~hasQ
                   s1 == IF spawn
                         THEN [s EXCEPT !.pipes = Append(@, createNormalPipe(rnd))]
                         ELSE s
                   r == PlayingLoop([s |-> s1, halt |-> FALSE, ev |-> "none", pass |-> FALSE],
                                    1, dt2, nq, ans)
               IN IF r.ev = "threw" THEN r ELSE [r EXCEPT !.s.pipes = OnScreen(@)]

\* a Plain obstacle spawned although a Question obstacle is still to be passed
PlayingFrame_SpawnBesideQuestion(s0, dt2, rnd, nq, ans) ==
  LET s == [s0 EXCEPT !.bird = Physics(@, dt2)]
      hasQ == hasQuestionPipeOnScreen(s.pipes)
  IN IF OutOfBounds(s.bird)
     THEN [s |-> [s EXCEPT !.phase = "game_over"], halt |-> TRUE, ev |-> "none", pass |-> FALSE]
     ELSE IF /\ s.pipesSinceLastQuestion >= NORMAL_PIPES_BETWEEN_QUESTIONS
             /\ ~hasQ
             /\ s.questionIndex < nq
          THEN [s |-> [s EXCEPT !.phase = "question_preview", !.currentQuestionActive = TRUE],
                halt |-> TRUE, ev |-> "none", pass |-> FALSE]
          ELSE LET shouldSpawnPipe == \/ s.pipes = << >>
                                      \/ s.pipes[Len(s.pipes)].x < CANVAS_WIDTH - SPAWN_SPACING
                   spawn == shouldSpawnPipe
                   s1 == IF spawn
                         THEN [s EXCEPT !.pipes = Append(@, createNormalPipe(rnd))]
                         ELSE s
                   r == PlayingLoop([s |-> s1, halt |-> FALSE, ev |-> "none", pass |-> FALSE],
                                    1, dt2, nq, ans)
               IN IF r.ev = "threw" THEN r ELSE [r EXCEPT !.s.pipes = OnScreen(@)]

\* the game state after one frame of case "playing"
PlayingFrame(s0, dt2, rnd, nq, ans) ==
  LET s == [s0 EXCEPT !.bird = Physics(@, dt2)]
      hasQ == hasQuestionPipeOnScreen(s.pipes)
  IN IF OutOfBounds(s.bird)
     THEN [s |-> [s EXCEPT !.phase = "game_over"], halt |-> TRUE, ev |-> "none", pass |-> FALSE]
     ELSE IF /\ s.pipesSinceLastQuestion >= NORMAL_PIPES_BETWEEN_QUESTIONS
             /\ ~hasQ
             /\ s.questionIndex < nq
          THEN [s |-> [s EXCEPT !.phase = "question_preview", !.currentQuestionActive = TRUE],
                halt |-> TRUE, ev |-> "none", pass |-> FALSE]
          ELSE LET shouldSpawnPipe == \/ s.pipes = << >>
                                      \/ s.pipes[Len(s.pipes)].x < CANVAS_WIDTH - SPAWN_SPACING
                   spawn == shouldSpawnPipe /\ ~hasQ
                   s1 == IF spawn
                         THEN [s EXCEPT !.pipes = Append(@, createNormalPipe(rnd))]
                         ELSE s
                   r == PlayingLoop([s |-> s1, halt |-> FALSE, ev |-> "none", pass |-> FALSE],
                                    1, dt2, nq, ans)
               IN IF r.ev = "threw" THEN r ELSE [r EXCEPT !.s.pipes = OnScreen(@)]

TickPlaying(ms, rnd, a) ==
  /\ assets = "loaded"
  /\ state.phase = "playing"
  /\ LET r == PlayingFrame(state, deltaTime2(ms), rnd, Len(currentChapter),
                           questionAt(currentChapter, state.questionIndex))
     IN /\ state' = r.s
        /\ Clock(ms, r.s)
        /\ loopAlive' = (r.ev # "threw")
        /\ aim' = IF r.pass \/ r.ev # "none" THEN a ELSE aim
        /\ answeredCorrect' = IF r.ev = "correct"
                              THEN answeredCorrect \cup {<<state.chapterIndex, state.questionIndex>>}
                              ELSE answeredCorrect
  /\ phaseWrites' = IF state'.phase # state.phase THEN 1 ELSE 0
  /\ freeFall' = FreeFallTick(state'.phase)
  /\ UNCHANGED << propChapters, onboarding, onboardingData, chapters, assets, retries, onCompleteCalls >>

\* the Question obstacle spawned without waiting for the preview to end
PreviewFrame_Immediate(s0, dt2, e) ==
  LET s == [s0 EXCEPT !.bird = Physics(@, dt2)]
  IN IF OutOfBounds(s.bird)
     THEN [s |-> [s EXCEPT !.phase = "game_over"], halt |-> TRUE, pass |-> FALSE, writes |-> 1]
     ELSE LET r == PreviewLoop([s |-> s, halt |-> FALSE, pass |-> FALSE, writes |-> 0], 1, dt2)
              r1 == [r EXCEPT !.s.pipes = OnScreen(@)]
          IN [r1 EXCEPT !.s.pipes = Append(@, createQuestionPipe), !.s.phase = "playing",
                        !.writes = @ + 1]

\* the game state after one frame of case "question_preview"
PreviewFrame(s0, dt2, e) ==
  LET s == [s0 EXCEPT !.bird = Physics(@, dt2)]
  IN IF OutOfBounds(s.bird)
     THEN [s |-> [s EXCEPT !.phase = "game_over"], halt |-> TRUE, pass |-> FALSE, writes |-> 1]
     ELSE LET r == PreviewLoop([s |-> s, halt |-> FALSE, pass |-> FALSE, writes |-> 0], 1, dt2)
              r1 == [r EXCEPT !.s.pipes = OnScreen(@)]
          IN IF e >= QUESTION_PREVIEW_TIME
             THEN [r1 EXCEPT !.s.pipes = Append(@, createQuestionPipe), !.s.phase = "playing",
                             !.writes = @ + 1]
             ELSE r1

TickQuestionPreview(ms, a) ==
  /\ assets = "loaded"
  /\ state.phase = "question_preview"
  /\ LET r == PreviewFrame(state, deltaTime2(ms), Elapsed(ms))
     IN /\ state' = r.s
        /\ phaseWrites' = r.writes
        /\ Clock(ms, r.s)
        /\ aim' = IF r.s.phase = "playing" \/ r.pass THEN a ELSE aim
  /\ freeFall' = FreeFallTick(state'.phase)
  /\ UNCHANGED << propChapters, onboarding, onboardingData, chapters, loopAlive, assets, retries, onCompleteCalls, answeredCorrect >>

\* the falling bird not held at the floor
TickGameOver_Unclamped(ms) ==
  /\ assets = "loaded"
  /\ state.phase = "game_over"
  /\ \/ state.bird.velocity < MaxFallVelocity
     \/ state.bird.y > (PLAY_AREA_BOTTOM - BIRD_HEIGHT) * YUnit
  /\ LET dt2 == deltaTime2(ms)
         v == state.bird.velocity + (GRAVITY_8 * dt2) \div 4
         s == [state EXCEPT !.bird.velocity = v,
                            !.bird.y = @ + v * dt2]
     IN /\ state' = s
        /\ Clock(ms, s)
  /\ phaseWrites' = 0
  /\ UNCHANGED << freeFall, propChapters, onboarding, onboardingData, chapters, loopAlive, assets, aim, retries, onCompleteCalls, answeredCorrect >>

\* the bird falls at half gravity and is clamped to the floor
TickGameOver(ms) ==
  /\ assets = "loaded"
  /\ state.phase = "game_over"
  /\ \/ state.bird.velocity < MaxFallVelocity
     \/ state.bird.y > (PLAY_AREA_BOTTOM - BIRD_HEIGHT) * YUnit
  /\ LET dt2 == deltaTime2(ms)
         v == state.bird.velocity + (GRAVITY_8 * dt2) \div 4
         s == [state EXCEPT !.bird.velocity = v,
                            !.bird.y = Min((PLAY_AREA_BOTTOM - BIRD_HEIGHT) * YUnit, @ + v * dt2)]
     IN /\ state' = s
        /\ Clock(ms, s)
  /\ phaseWrites' = 0
  /\ UNCHANGED << freeFall, propChapters, onboarding, onboardingData, chapters, loopAlive, assets, aim, retries, onCompleteCalls, answeredCorrect >>

TickChapterComplete(ms) ==
  /\ assets = "loaded"
  /\ state.phase = "chapter_complete"
  /\ state' = state
  /\ Clock(ms, state)
  /\ phaseWrites' = 0
  /\ UNCHANGED << freeFall, propChapters, onboarding, onboardingData, chapters, loopAlive, assets, aim, retries, onCompleteCalls, answeredCorrect >>

TickGameComplete(ms) ==
  /\ assets = "loaded"
  /\ state.phase = "game_complete"
  /\ state' = state
  /\ Clock(ms, state)
  /\ phaseWrites' = 0
  /\ UNCHANGED << freeFall, propChapters, onboarding, onboardingData, chapters, loopAlive, assets, aim, retries, onCompleteCalls, answeredCorrect >>


\* ------------------------------------------------------------------------
\* Primary action: handleCanvasClick (lines 1261-1323) and jump (252-272)
\* ------------------------------------------------------------------------
\* jump(): an early return inside the cooldown; otherwise the jump time is
\* stored and, in a flight phase, the bird gets its impulse
jump(s) ==
  IF s.phase \in FlightPhases
  THEN [s EXCEPT !.bird.velocity = -JUMP_STRENGTH_8]
  ELSE s

\* the cooldown test left out
JumpAccepted_NoCooldown == TRUE

JumpAccepted == ~(sinceJump < JUMP_COOLDOWN)

\* the player holds the altitude of the aim: in a flight phase a tap comes
\* only while the bird is below that line
Line(a) == IF a = "yes" THEN YesLine ELSE IF a = "top" THEN TopLine ELSE NoLine
TapWanted ==
  IF aim = "hop"
  THEN state.phase = "question_preview" /\ elapsed > 0 /\ elapsed <= HopTime
  ELSE aim # "fall" /\ state.bird.y > Line(aim) * YUnit

\* the player is prompt: with a wanted tap that jump() would accept pending,
\* the tap comes before the next frame
NoTapPending ==
  state.phase \in FlightPhases => ~(TapWanted /\ sinceJump >= JUMP_COOLDOWN)

\* the scripted flight skipped
ClickReadyToPlay_SkipAutoFly ==
  /\ state.phase = "ready_to_play"
  /\ state' = [state EXCEPT !.phase = "playing", !.currentQuestionActive = TRUE]
  /\ elapsed' \in { -lead: lead \in EntryLeads }
  /\ sinceInput' = 0
  /\ phaseWrites' = 0
  /\ UNCHANGED << freeFall, propChapters, onboarding, onboardingData, chapters, loopAlive, assets, sinceJump, impulseAge, aim, retries,
                  onCompleteCalls, answeredCorrect >>

ClickReadyToPlay ==
  /\ state.phase = "ready_to_play"
  /\ state' = [state EXCEPT !.phase = "auto_fly", !.currentQuestionActive = TRUE]
  /\ elapsed' \in { -lead: lead \in EntryLeads }
  /\ sinceInput' = 0
  /\ phaseWrites' = 0
  /\ UNCHANGED << freeFall, propChapters, onboarding, onboardingData, chapters, loopAlive, assets, sinceJump, impulseAge, aim, retries, onCompleteCalls,
                  answeredCorrect >>

\* the resume clears the whole obstacle list
ClickGameOver_ClearAll(a) ==
  /\ state.phase = "game_over"
  /\ retries < MaxRetries
  /\ state' = [state EXCEPT !.phase = "playing",
                            !.bird = CentreBird,
                            !.pipes = << >>]
  /\ elapsed' = 0
  /\ sinceInput' = 0
  /\ aim' = a
  /\ retries' = retries + 1
  /\ phaseWrites' = 0
  /\ freeFall' = AtRest(state'.bird)
  /\ UNCHANGED << propChapters, onboarding, onboardingData, chapters, loopAlive, assets, sinceJump, impulseAge, onCompleteCalls, answeredCorrect >>

\* the plain-obstacle counter put back to 0 by the resume
ClickGameOver_ResetCounter(a) ==
  /\ state.phase = "game_over"
  /\ retries < MaxRetries
  /\ state' = [state EXCEPT !.phase = "playing",
                            !.bird = CentreBird,
                            !.pipes = SelectSeq(@, LAMBDA p: p.x > BUFFER_X),
                            !.pipesSinceLastQuestion = 0]
  /\ elapsed' = 0
  /\ sinceInput' = 0
  /\ aim' = a
  /\ retries' = retries + 1
  /\ phaseWrites' = 0
  /\ freeFall' = AtRest(state'.bird)
  /\ UNCHANGED << propChapters, onboarding, onboardingData, chapters, loopAlive, assets, sinceJump, impulseAge, onCompleteCalls, answeredCorrect >>

ClickGameOver(a) ==
  /\ state.phase = "game_over"
  /\ retries < MaxRetries
  /\ state' = [state EXCEPT !.phase = "playing",
                            !.bird = CentreBird,
                            !.pipes = SelectSeq(@, LAMBDA p: p.x > BUFFER_X)]
  /\ elapsed' = 0
  /\ sinceInput' = 0
  /\ aim' = a
  /\ retries' = retries + 1
  /\ phaseWrites' = 0
  /\ freeFall' = AtRest(state'.bird)
  /\ UNCHANGED << propChapters, onboarding, onboardingData, chapters, loopAlive, assets, sinceJump, impulseAge, onCompleteCalls, answeredCorrect >>

\* the obstacles of the finished chapter carried over into the next one
ClickChapterComplete_KeepPipes ==
  /\ state.phase = "chapter_complete"
  /\ state' = IF state.chapterIndex < Len(chapters) - 1
              THEN [state EXCEPT !.chapterIndex = @ + 1,
                                 !.questionIndex = 0,
                                 !.phase = "chapter_intro",
                                 !.pipesSinceLastQuestion = NORMAL_PIPES_BETWEEN_QUESTIONS,
                                 !.currentQuestionActive = FALSE]
              ELSE [state EXCEPT !.phase = "game_complete"]
  /\ elapsed' \in { -lead: lead \in EntryLeads }
  /\ sinceInput' = 0
  /\ phaseWrites' = 0
  /\ UNCHANGED << freeFall, propChapters, onboarding, onboardingData, chapters, loopAlive, assets, sinceJump, impulseAge, aim, retries,
                  onCompleteCalls, answeredCorrect >>

ClickChapterComplete ==
  /\ state.phase = "chapter_complete"
  /\ state' = IF state.chapterIndex < Len(chapters) - 1
              THEN [state EXCEPT !.chapterIndex = @ + 1,
                                 !.questionIndex = 0,
                                 !.phase = "chapter_intro",
                                 !.pipes = << >>,
                                 !.pipesSinceLastQuestion = NORMAL_PIPES_BETWEEN_QUESTIONS,
                                 !.currentQuestionActive = FALSE]
              ELSE [state EXCEPT !.phase = "game_complete"]
  /\ elapsed' \in { -lead: lead \in EntryLeads }
  /\ sinceInput' = 0
  /\ phaseWrites' = 0
  /\ UNCHANGED << freeFall, propChapters, onboarding, onboardingData, chapters, loopAlive, assets, sinceJump, impulseAge, aim, retries, onCompleteCalls,
                  answeredCorrect >>

\* the restart keeps the arcade score
ClickGameComplete_KeepDisplayScore ==
  /\ state.phase = "game_complete"
  /\ state' = [InitialGameState(chapters, "chapter_intro", NORMAL_PIPES_BETWEEN_QUESTIONS)
                 EXCEPT !.displayScore = state.displayScore]
  /\ elapsed' \in { -lead: lead \in EntryLeads }
  /\ sinceInput' = 0
  /\ retries' = 0
  /\ answeredCorrect' = {}
  /\ phaseWrites' = 0
  /\ UNCHANGED << freeFall, propChapters, onboarding, onboardingData, chapters, loopAlive, assets, sinceJump, impulseAge, aim, onCompleteCalls >>

ClickGameComplete ==
  /\ state.phase = "game_complete"
  /\ state' = InitialGameState(chapters, "chapter_intro", NORMAL_PIPES_BETWEEN_QUESTIONS)
  /\ elapsed' \in { -lead: lead \in EntryLeads }
  /\ sinceInput' = 0
  /\ retries' = 0
  /\ answeredCorrect' = {}
  /\ phaseWrites' = 0
  /\ UNCHANGED << freeFall, propChapters, onboarding, onboardingData, chapters, loopAlive, assets, sinceJump, impulseAge, aim, onCompleteCalls >>

\* the else branch: every other phase calls jump()
ClickJump ==
  /\ state.phase \notin {"ready_to_play", "game_over", "chapter_complete", "game_complete"}
  /\ state.phase \in FlightPhases => TapWanted
  /\ IF JumpAccepted
     THEN /\ sinceJump' = 0
          /\ state' = jump(state)
          /\ impulseAge' = IF state.phase \in FlightPhases THEN 0 ELSE impulseAge
     ELSE UNCHANGED << sinceJump, state, impulseAge >>
  /\ sinceInput' = 0
  /\ phaseWrites' = 0
  /\ freeFall' = IF JumpAccepted /\ state.phase \in FlightPhases THEN NoFreeFall ELSE freeFall
  /\ UNCHANGED << propChapters, onboarding, onboardingData, chapters, loopAlive, assets, elapsed, aim, retries, onCompleteCalls, answeredCorrect >>

\* a frame runs while the loop is alive: an exception thrown by gameLoop
\* skips the requestAnimationFrame call at its end (line 1241)
Tick ==
  /\ loopAlive
  /\ NoTapPending
  /\ \E ms \in FrameDurations:
    \/ TickChapterIntro(ms)
    \/ \E sn \in SineSamples: TickReadyToPlay(ms, sn)
    \/ \E sn \in SineSamples, a \in Aims: TickAutoFly(ms, sn, a)
    \/ \E rnd \in RandomDraws, a \in Aims: TickPlaying(ms, rnd, a)
    \/ \E a \in Aims: TickQuestionPreview(ms, a)
    \/ TickGameOver(ms)
    \/ TickChapterComplete(ms)
    \/ TickGameComplete(ms)

Next ==
  \/ AssetsLoaded
  \/ AssetsFailed
  \/ Tick
  \/ ClickReadyToPlay
  \/ \E a \in RetryAims: ClickGameOver(a)
  \/ ClickChapterComplete
  \/ ClickGameComplete
  \/ ClickJump

Spec == Init /\ [][Next]_vars

\* unvalidated content is supplied: lists with an empty chapter next to the
\* validated ones
InitAnyContent ==
  /\ propChapters \in { Supplied(cs): cs \in ChapterLists \cup MalformedLists }
  /\ Constructed

SpecAnyContent == InitAnyContent /\ [][Next]_vars

\* the prop is absent, empty or a validated list; the game is followed to
\* the end of its first chapter, without a retry
InitSupply ==
  /\ propChapters \in {Absent, Supplied(<< >>)} \cup { Supplied(cs): cs \in ChapterLists }
  /\ Constructed

FirstChapterTick ==
  /\ loopAlive
  /\ NoTapPending
  /\ \E ms \in FrameDurations:
    \/ TickChapterIntro(ms)
    \/ \E sn \in SineSamples: TickReadyToPlay(ms, sn)
    \/ \E sn \in SineSamples, a \in Aims: TickAutoFly(ms, sn, a)
    \/ \E rnd \in RandomDraws, a \in Aims: TickPlaying(ms, rnd, a)
    \/ \E a \in Aims: TickQuestionPreview(ms, a)
    \/ TickGameOver(ms)
    \/ TickChapterComplete(ms)

NextSupply ==
  \/ AssetsLoaded
  \/ AssetsFailed
  \/ FirstChapterTick
  \/ ClickReadyToPlay
  \/ ClickJump

SpecSupply == InitSupply /\ [][NextSupply]_vars

\* the obstacle generators applied to every draw of Math.random()
AllDraws == 0..(RandomDen - 1)

InitGenerator ==
  /\ propChapters = Supplied(SingleChapter)
  /\ Constructed

SpawnPlain(rnd) ==
  /\ state.pipes = << >>
  /\ state' = [state EXCEPT !.pipes = Append(@, createNormalPipe(rnd))]
  /\ UNCHANGED << freeFall, phaseWrites, propChapters, onboarding, onboardingData, chapters, loopAlive, assets, elapsed, sinceJump, sinceInput,
                  impulseAge, aim, retries, onCompleteCalls, answeredCorrect >>

SpawnQuestion ==
  /\ state.pipes = << >>
  /\ state' = [state EXCEPT !.pipes = Append(@, createQuestionPipe)]
  /\ UNCHANGED << freeFall, phaseWrites, propChapters, onboarding, onboardingData, chapters, loopAlive, assets, elapsed, sinceJump, sinceInput,
                  impulseAge, aim, retries, onCompleteCalls, answeredCorrect >>

NextGenerator ==
  \/ \E rnd \in AllDraws: SpawnPlain(rnd)
  \/ SpawnQuestion

SpecGenerator == InitGenerator /\ [][NextGenerator]_vars

\* ------------------------------------------------------------------------
\* Onboarding: the form, the quiz generation request and the hand-off
\* ------------------------------------------------------------------------
KNOWLEDGE_LEVELS == {"beginner", "intermediate", "expert"}
USER_TYPES == {"first-time", "regular", "curious"}
LOADING_STEPS ==
  << "Finding your local ballot", "Matching your priorities", "Calibrating difficulty",
     "Personalizing experience" >>
\* toggleTopic lets at most this many topics be selected
MaxTopics == 3
\* the Continue button of the zip code step asks for this many characters
ZipLength == 5

\* what the player types into the zip code field
LocationInputs == {"", " ", "9021", "90210"}

\* String.prototype.trim and String.prototype.length on those inputs
trim(s) == IF s = " " THEN "" ELSE s
length(s) == CASE s = "" -> 0 [] s = " " -> 1 [] s = "9021" -> 4 [] OTHER -> 5

\* what openai.responses.create yields: an exception, no output text, text
\* that is no JSON, JSON without a chapters array, a chapter without a
\* required field, a question with a field of the wrong type, or a chapter
\* list; QUIZ_OUTPUT_SCHEMA sets no minimum on the items of chapters
LLMOutputs ==
  { [ kind |-> k, chapters |-> << >> ] :
      k \in {"throws", "no_content", "no_json", "no_chapters", "bad_chapter", "bad_question"} }
  \cup { [ kind |-> "quiz", chapters |-> cs ] : cs \in {<< >>} \cup ChapterLists }

\* fetch resolves with the route's response, or rejects
Networks == {"up", "down"}

\* a GenerateQuizResponse without chapters
GenerationFailed == [ success |-> FALSE, hasChapters |-> FALSE, chapters |-> << >> ]

\* the route handler: the HTTP status and the body it answers with
POST(req, out) ==
  IF req.topics = 0 THEN [ status |-> 400, body |-> GenerationFailed ]
  ELSE IF req.location = "" THEN [ status |-> 400, body |-> GenerationFailed ]
  ELSE IF out.kind # "quiz" THEN [ status |-> 500, body |-> GenerationFailed ]
  ELSE [ status |-> 200,
         body |-> [ success |-> TRUE, hasChapters |-> TRUE, chapters |-> out.chapters ] ]

\* the client of the route: every failure becomes a response with
\* success false, nothing is thrown
generateQuizWithLLM(req, out, net) ==
  IF net = "down" THEN GenerationFailed
  ELSE LET response == POST(req, out)
       IN IF response.status \notin 200..299 THEN GenerationFailed ELSE response.body

allStepsComplete(o) == Len(o.completedLoadingSteps) = Len(LOADING_STEPS)
aiReady(o) == ~o.isGenerating /\ Len(o.generatedChapters) > 0
canStartGame(o) ==
  allStepsComplete(o) /\ aiReady(o) /\ o.data.location # "" /\ Len(o.generatedChapters) > 0

\* handleNext up to its await, followed by the render of the loading step,
\* whose effect starts the interval with stepIndex = 0
handleNext(o) ==
  IF o.step = 4
    THEN [ o EXCEPT !.step = 5,
                    !.isGenerating = TRUE,
                    !.stepIndex = 0,
                    !.interval = TRUE,
                    !.request = [ status |-> "pending", topics |-> o.data.topics,
                                  location |-> o.data.location ] ]
    ELSE [ o EXCEPT !.step = @ + 1 ]

handleBack(o) == [ o EXCEPT !.step = @ - 1 ]

handleLocationSubmit(o) ==
  IF trim(o.locationInput) # ""
    THEN handleNext([ o EXCEPT !.data.location = trim(o.locationInput) ])
    ELSE o

\* toggleTopic on a topic that is selected or not (the button of a topic
\* that is not selected is disabled once MaxTopics are)
toggleTopic(o, selected) ==
  IF selected THEN [ o EXCEPT !.data.topics = @ - 1 ]
  ELSE IF o.data.topics < MaxTopics THEN [ o EXCEPT !.data.topics = @ + 1 ]
  ELSE o

\* the variables of QuizGame
quizGameVars ==
  << state, propChapters, chapters, loopAlive, assets, elapsed, sinceJump, sinceInput, impulseAge, aim,
     retries, onCompleteCalls, answeredCorrect, freeFall, phaseWrites >>

\* the form shows the card of step n
Shown(n) == onboarding.mounted /\ ~onboarding.showVideo /\ onboarding.step = n

\* a handler of the form has run: nothing else changes
FormStep(o) ==
  /\ onboarding' = o
  /\ UNCHANGED << quizGameVars, onboardingData >>

\* the intro video ends: BallotIntroAnimation calls its onComplete
VideoEnded ==
  /\ onboarding.mounted
  /\ onboarding.showVideo
  /\ FormStep([ onboarding EXCEPT !.showVideo = FALSE ])

TypeLocation(s) ==
  /\ Shown(1)
  /\ FormStep([ onboarding EXCEPT !.locationInput = s ])

\* Enter in the zip code field
EnterLocation ==
  /\ Shown(1)
  /\ FormStep(handleLocationSubmit(onboarding))

\* the Continue button of the zip code step
ClickLocationContinue ==
  /\ Shown(1)
  /\ ~(trim(onboarding.locationInput) = "" \/ length(onboarding.locationInput) < ZipLength)
  /\ FormStep(handleLocationSubmit(onboarding))

ClickTopic(selected) ==
  /\ Shown(2)
  /\ IF selected THEN onboarding.data.topics > 0 ELSE ~(onboarding.data.topics >= MaxTopics)
  /\ FormStep(toggleTopic(onboarding, selected))

SelectKnowledgeLevel(k) ==
  /\ Shown(3)
  /\ FormStep([ onboarding EXCEPT !.data.knowledgeLevel = k ])

SelectUserType(u) ==
  /\ Shown(4)
  /\ FormStep([ onboarding EXCEPT !.data.userType = u ])

\* the buttons wired to handleNext, each with its disabled test
ClickContinue ==
  /\ \/ Shown(0)
     \/ Shown(2) /\ onboarding.data.topics # 0
     \/ Shown(3) /\ onboarding.data.knowledgeLevel # ""
     \/ Shown(4) /\ onboarding.data.userType # ""
  /\ FormStep(handleNext(onboarding))

ClickBack ==
  /\ \E n \in 1..4: Shown(n)
  /\ FormStep(handleBack(onboarding))

\* the interval callback of the loading step. The updater handed to
\* setCompletedLoadingSteps reads stepIndex when React runs it: at once,
\* or at the next render, after stepIndex++
LoadingTick ==
  /\ onboarding.mounted
  /\ onboarding.step = 5
  /\ onboarding.interval
  /\ onboarding.stepIndex < Len(LOADING_STEPS)
  /\ \E read \in {onboarding.stepIndex, onboarding.stepIndex + 1}:
       LET stepIndex == onboarding.stepIndex + 1
       IN FormStep([ onboarding EXCEPT
            !.completedLoadingSteps = Append(@, read),
            !.stepIndex = stepIndex,
            !.loadingStep = IF stepIndex < Len(LOADING_STEPS) THEN stepIndex ELSE @,
            !.interval = ~(stepIndex >= Len(LOADING_STEPS)) ])

\* the request settles and handleNext resumes after its await
RequestSettles(out, net) ==
  /\ onboarding.mounted
  /\ onboarding.request.status = "pending"
  /\ LET response == generateQuizWithLLM(onboarding.request, out, net)
         taken == response.success /\ response.hasChapters
     IN FormStep([ onboarding EXCEPT
          !.generatedChapters = IF taken THEN response.chapters ELSE SAMPLE_GAME_DATA,
          !.isGenerated = taken,
          !.isGenerating = FALSE,
          !.request.status = "settled" ])

\* onComplete of OnboardingFlow is handleOnboardingComplete of Page: the
\* result is stored, OnboardingFlow is unmounted and QuizGame is mounted
\* with the chapters of the result
HandOver ==
  LET result == OnboardingResult(onboarding.data, onboarding.generatedChapters, onboarding.isGenerated)
  IN /\ onboardingData' = result
     /\ onboarding' = [ onboarding EXCEPT !.mounted = FALSE ]
     /\ propChapters' = Supplied(result.chapters)
     /\ chapters' = chaptersState(propChapters')
     /\ state' = InitialGameState(chapters', "loading", 0)
     /\ UNCHANGED << loopAlive, assets, elapsed, sinceJump, sinceInput, impulseAge, aim, retries,
                     onCompleteCalls, answeredCorrect, freeFall, phaseWrites >>

\* the timer of the auto-start effect fires
AutoStart ==
  /\ onboarding.mounted
  /\ canStartGame(onboarding)
  /\ HandOver

\* the Start Quiz button, rendered when canStartGame holds
handleStartGame ==
  /\ onboarding.mounted
  /\ onboarding.step = 5
  /\ allStepsComplete(onboarding) /\ canStartGame(onboarding)
  /\ onboarding.data.location # "" /\ Len(onboarding.generatedChapters) > 0
  /\ HandOver

\* Page at its first render: OnboardingFlow is shown, QuizGame is not
\* mounted yet and its variables wait at their construction values
InitOnboarding ==
  /\ propChapters = Absent
  /\ QuizGameConstructed
  /\ onboarding = OnboardingFlowState
  /\ onboardingData = NoResult

NextOnboarding ==
  \/ VideoEnded
  \/ \E s \in LocationInputs: TypeLocation(s)
  \/ EnterLocation
  \/ ClickLocationContinue
  \/ \E selected \in BOOLEAN: ClickTopic(selected)
  \/ \E k \in KNOWLEDGE_LEVELS: SelectKnowledgeLevel(k)
  \/ \E u \in USER_TYPES: SelectUserType(u)
  \/ ClickContinue
  \/ ClickBack
  \/ LoadingTick
  \/ \E out \in LLMOutputs, net \in Networks: RequestSettles(out, net)
  \/ AutoStart
  \/ handleStartGame

\* setInterval and setTimeout are served by the event loop as long as they
\* stay armed; nothing bounds the time a fetch takes, and no input is owed
\* by the player
SpecOnboarding ==
  InitOnboarding /\ [][NextOnboarding]_vars /\ WF_vars(LoadingTick) /\ WF_vars(AutoStart)


\* ------------------------------------------------------------------------
\* Vocabulary of the properties
\* ------------------------------------------------------------------------
\* a step taken by handleCanvasClick: only a primary action brings
\* sinceInput to 0 (every frame lasts longer than 0 ms)
InputStep == sinceInput' = 0 /\ assets' = assets

UnansweredQuestions(pipes) ==
  { i \in 1..Len(pipes): pipes[i].type = "question" /\ ~pipes[i].questionAnswered }

\* pipe q of the next state is pipe p of this state after one frame's move
MovedTo(p, q) ==
  /\ q.type = p.type
  /\ \E ms \in FrameDurations: q.x = MovePipe(p, deltaTime2(ms)).x

HorizontalOverlap(pipe) ==
  BIRD_LEFT + BIRD_WIDTH > pipe.x /\ BIRD_LEFT < pipe.x + PIPE_WIDTH

InYes(bird, pipe) ==
  bird.y > pipe.topPipeBottom * YUnit /\ bird.y + BIRD_HEIGHT * YUnit < pipe.middlePipeTop * YUnit

InNo(bird, pipe) ==
  bird.y > pipe.middlePipeBottom * YUnit /\ bird.y + BIRD_HEIGHT * YUnit < pipe.bottomPipeTop * YUnit

\* a step of the game loop (one frame), as opposed to an input or the asset callback
FrameStep == sinceInput' # 0 /\ assets' = assets

ChapterCorrect(ci) == state.score.chapterScores[ci + 1].correct

SingleTrue == << <<TRUE>> >>

\* ------------------------------------------------------------------------
\* C1 (as stated): with one chapter of one question whose answer is true,
\* five Plain obstacles are passed (displayScore = 5) before the Question
\* obstacle spawns, and entering the YES slot brings displayScore to 10 with
\* totalCorrect = 1.
\* ------------------------------------------------------------------------
C1_Original ==
  (chapters = SingleTrue /\ retries = 0) =>
    /\ (\E i \in 1..Len(state.pipes): state.pipes[i].type = "question") => state.displayScore >= 5
    /\ answeredCorrect # {} => (state.displayScore = 10 /\ state.score.totalCorrect = 1)

\* C1 (amended): with one chapter of one question whose answer is true no
\* Plain obstacle is ever spawned; in a run without a crash question_preview
\* is never entered, displayScore is 0 until the YES slot is entered and 5
\* afterwards with totalCorrect = 1 and chapter score {correct:1,total:1};
\* chapter_complete and game_complete show total = 1 and totalQuestions = 1,
\* and an input in chapter_complete changes the phase to game_complete and
\* nothing else.
C1_Scenario ==
  /\ [](chapters = SingleTrue =>
          /\ \A i \in 1..Len(state.pipes): state.pipes[i].type = "question"
          /\ state.score.totalQuestions = 1
          /\ state.score.chapterScores[1].total = 1
          /\ retries = 0 =>
               /\ state.phase # "question_preview"
               /\ answeredCorrect = {} =>
                    /\ state.displayScore = 0
                    /\ state.score.totalCorrect = 0
                    /\ state.score.chapterScores[1].correct = 0
               /\ answeredCorrect # {} =>
                    /\ state.displayScore = 5
                    /\ state.score.totalCorrect = 1
                    /\ state.score.chapterScores[1].correct = 1)
  /\ [][(chapters = SingleTrue /\ state.phase = "chapter_complete" /\ InputStep)
          => state' = [state EXCEPT !.phase = "game_complete"]]_vars

C1_Witness ==
  /\ chapters = SingleTrue
  /\ retries = 0
  /\ state.phase = "game_complete"
  /\ state.displayScore = 5
  /\ state.score.totalCorrect = 1
  /\ state.score.totalQuestions = 1

\* ------------------------------------------------------------------------
\* C2: whenever the phase is chapter_complete the current chapter's correct
\* counter is the number of its questions answered correctly, each counted
\* once, and its total is its question count.
\* ------------------------------------------------------------------------
C2_ChapterCompleteScore ==
  state.phase = "chapter_complete" =>
    /\ ChapterCorrect(state.chapterIndex)
         = Cardinality({ p \in answeredCorrect: p[1] = state.chapterIndex })
    /\ state.score.chapterScores[state.chapterIndex + 1].total = Len(currentChapter)

\* ------------------------------------------------------------------------
\* C3: at game_complete the onComplete callback has been invoked exactly
\* once, and it is not invoked before.
\* ------------------------------------------------------------------------
C3_OnCompleteOnce ==
  IF state.phase = "game_complete" THEN onCompleteCalls = 1 ELSE onCompleteCalls <= 1

\* ------------------------------------------------------------------------
\* C4: the obstacle list never holds more than one Question obstacle with
\* questionAnswered = false.
\* ------------------------------------------------------------------------
C4_AtMostOneActiveQuestion == Cardinality(UnansweredQuestions(state.pipes)) <= 1

\* a crash has been resumed and a question is again waiting for its answer
C4_Witness ==
  /\ retries >= 1
  /\ state.phase = "playing"
  /\ Cardinality(UnansweredQuestions(state.pipes)) = 1
  /\ Len(state.pipes) >= 2

\* ------------------------------------------------------------------------
\* C5: a playing frame that processes an unanswered Question obstacle while
\* the bird overlaps it horizontally and lies inside one slot credits the
\* answer exactly when the slot matches the question's answer: totalCorrect
\* and the chapter's correct counter grow by 1 and displayScore by 5;
\* otherwise neither counter changes.
\* ------------------------------------------------------------------------
C5_Step(p, q) ==
  LET yes == InYes(state'.bird, q)
      no == InNo(state'.bird, q)
      ci == state.chapterIndex
      credited == /\ state'.score.totalCorrect = state.score.totalCorrect + 1
                  /\ state'.score.chapterScores[ci + 1].correct = ChapterCorrect(ci) + 1
                  /\ state'.displayScore = state.displayScore + 5
      notCredited == /\ state'.score.totalCorrect = state.score.totalCorrect
                     /\ state'.score.chapterScores[ci + 1].correct = ChapterCorrect(ci)
  IN (HorizontalOverlap(q) /\ (yes \/ no)) =>
       /\ q.questionAnswered
       /\ IF currentQuestion = yes THEN credited ELSE notCredited

C5_AnswerScoring ==
  [][state.phase = "playing" =>
       \A i \in 1..Len(state.pipes): \A j \in 1..Len(state'.pipes):
         ( /\ state.pipes[i].type = "question"
           /\ ~state.pipes[i].questionAnswered
           /\ MovedTo(state.pipes[i], state'.pipes[j]) )
         => C5_Step(state.pipes[i], state'.pipes[j])]_vars

\* the NO slot has just been entered on a question whose answer is false
C5_Witness ==
  /\ state.phase = "playing"
  /\ ~currentQuestion
  /\ <<state.chapterIndex, state.questionIndex>> \in answeredCorrect
  /\ \E i \in 1..Len(state.pipes):
       /\ state.pipes[i].type = "question"
       /\ state.pipes[i].questionAnswered
       /\ HorizontalOverlap(state.pipes[i])
       /\ InNo(state.bird, state.pipes[i])


\* ------------------------------------------------------------------------
\* C6: a frame of playing or question_preview in which a processed obstacle
\* overlaps a solid region of the bird's box ends in game_over.
\* ------------------------------------------------------------------------
C6_FatalCollision ==
  [][state.phase \in FlightPhases =>
       \A i \in 1..Len(state.pipes): \A j \in 1..Len(state'.pipes):
         ( /\ MovedTo(state.pipes[i], state'.pipes[j])
           /\ checkCollision(state'.bird, state'.pipes[j]) )
         => state'.phase = "game_over"]_vars

\* ------------------------------------------------------------------------
\* C7: no step taken in game_over changes chapterIndex, questionIndex, the
\* Score aggregate, displayScore or pipesSinceLastQuestion; the step that
\* leaves game_over goes to playing, puts the bird at the centre with
\* velocity 0 and keeps exactly the obstacles with x > 100, in order.
\* ------------------------------------------------------------------------
C7_CrashRetry ==
  [][state.phase = "game_over" =>
       /\ state'.chapterIndex = state.chapterIndex
       /\ state'.questionIndex = state.questionIndex
       /\ state'.score = state.score
       /\ state'.displayScore = state.displayScore
       /\ state'.pipesSinceLastQuestion = state.pipesSinceLastQuestion
       /\ state'.phase \in {"game_over", "playing"}
       /\ state'.phase = "playing" =>
            /\ InputStep
            /\ state'.bird = [y |-> ((PIPE_AREA_TOP + PIPE_AREA_BOTTOM) \div 2) * YUnit, velocity |-> 0]
            /\ state'.pipes = SelectSeq(state.pipes, LAMBDA p: p.x > 100)]_vars

\* just resumed: obstacles ahead were kept, the scores earned are still there
C7_Witness ==
  /\ state.phase = "playing"
  /\ retries >= 1
  /\ state.bird = CentreBird
  /\ Len(state.pipes) >= 1
  /\ state.displayScore > 0
  /\ state.score.totalCorrect > 0
  /\ state.questionIndex > 0

C9_RepeatIgnored ==
  [][(InputStep /\ sinceInput < JUMP_COOLDOWN) => state' = state]_vars

\* ------------------------------------------------------------------------
\* C10: an input in game_complete puts the bird at the centre with velocity
\* 0, zeroes every correct counter and recomputes the totals from the
\* chapter list, sets displayScore, chapterIndex and questionIndex to 0,
\* empties the obstacle list and sets the phase to chapter_intro.
\* ------------------------------------------------------------------------
C10_Restart ==
  [][(state.phase = "game_complete" /\ InputStep) =>
       /\ state'.phase = "chapter_intro"
       /\ state'.bird = [y |-> ((PIPE_AREA_TOP + PIPE_AREA_BOTTOM) \div 2) * YUnit, velocity |-> 0]
       /\ state'.pipes = << >>
       /\ state'.chapterIndex = 0
       /\ state'.questionIndex = 0
       /\ state'.displayScore = 0
       /\ state'.score.totalCorrect = 0
       /\ state'.score.totalQuestions = SumLen(chapters)
       /\ Len(state'.score.chapterScores) = Len(chapters)
       /\ \A c \in 1..Len(chapters):
            state'.score.chapterScores[c] = [correct |-> 0, total |-> Len(chapters[c])]]_vars

\* a two-chapter game was played to the end and has just been restarted
C10_Witness ==
  /\ Len(chapters) = 2
  /\ state.phase = "chapter_intro"
  /\ state.chapterIndex = 0
  /\ aim = "yes"
  /\ elapsed = 0
  /\ sinceInput = 0
  /\ state.displayScore = 0
  /\ state.score.totalCorrect = 0

\* ------------------------------------------------------------------------
\* C11: over its whole lifetime a Plain obstacle is credited at most once:
\* its passed and scored flags are never cleared, neither by a frame nor by
\* a resume, and a Plain obstacle is scored exactly when it is passed; a frame
\* of playing or question_preview that registers no answer raises
\* displayScore by exactly the number of Plain obstacles whose scored flag it
\* sets, and pipesSinceLastQuestion by the same number unless a Question
\* obstacle is passed; no other step sets a scored flag.
\* ------------------------------------------------------------------------
\* obstacle q of the next state is obstacle p of this state: obstacles are
\* more than one frame's move apart, and a frame that ends early or an input
\* leaves them where they are
C11_Same(p, q) ==
  /\ q.type = p.type
  /\ (q.x = p.x \/ MovedTo(p, q))

C11_NewlyScored ==
  { j \in 1..Len(state'.pipes):
      /\ state'.pipes[j].type = "normal"
      /\ state'.pipes[j].scored
      /\ ~\E i \in 1..Len(state.pipes):
            C11_Same(state.pipes[i], state'.pipes[j]) /\ state.pipes[i].scored }

C11_QuestionEvent ==
  \E i \in 1..Len(state.pipes): \E j \in 1..Len(state'.pipes):
    /\ state.pipes[i].type = "question"
    /\ C11_Same(state.pipes[i], state'.pipes[j])
    /\ \/ state.pipes[i].questionAnswered # state'.pipes[j].questionAnswered
       \/ state.pipes[i].passed # state'.pipes[j].passed

C11_PassOnce ==
  /\ [](\A i \in 1..Len(state.pipes):
          state.pipes[i].type = "normal" => (state.pipes[i].scored <=> state.pipes[i].passed))
  /\ [][/\ \A i \in 1..Len(state.pipes): \A j \in 1..Len(state'.pipes):
             C11_Same(state.pipes[i], state'.pipes[j]) =>
               /\ state.pipes[i].scored => state'.pipes[j].scored
               /\ state.pipes[i].passed => state'.pipes[j].passed
        /\ (state.phase \in FlightPhases /\ ~InputStep /\ ~C11_QuestionEvent) =>
             /\ state'.displayScore = state.displayScore + Cardinality(C11_NewlyScored)
             /\ state'.pipesSinceLastQuestion
                  = state.pipesSinceLastQuestion + Cardinality(C11_NewlyScored)
        /\ (state.phase \notin FlightPhases \/ InputStep) => C11_NewlyScored = {}]_vars

\* after a resume, the frame that ended a preview has passed and scored a
\* Plain obstacle kept by the resume: the Question obstacle has just spawned
C11_Witness ==
  /\ state.phase = "playing"
  /\ retries >= 1
  /\ state.pipesSinceLastQuestion > NORMAL_PIPES_BETWEEN_QUESTIONS
  /\ \E i \in 1..Len(state.pipes):
       state.pipes[i].type = "question" /\ state.pipes[i].x = PIPE_SPAWN_X
  /\ \E i \in 1..Len(state.pipes):
       /\ state.pipes[i].type = "normal"
       /\ state.pipes[i].scored
       /\ state.pipes[i].passed
       /\ state.pipes[i].x + PIPE_WIDTH + PIPE_SPEED * 2 > BIRD_LEFT

\* ------------------------------------------------------------------------
\* C12: every Question obstacle produced by createQuestionPipe has
\* topPipeBottom < middlePipeTop < middlePipeBottom < bottomPipeTop, its YES
\* and NO slots have the same height, and that height exceeds the gap of a
\* Plain obstacle.
\* ------------------------------------------------------------------------
C12_SlotOrdering ==
  \A i \in 1..Len(state.pipes):
    state.pipes[i].type = "question" =>
      LET q == state.pipes[i]
      IN /\ q.topPipeBottom < q.middlePipeTop
         /\ q.middlePipeTop < q.middlePipeBottom
         /\ q.middlePipeBottom < q.bottomPipeTop
         /\ q.middlePipeTop - q.topPipeBottom = q.bottomPipeTop - q.middlePipeBottom
         /\ q.middlePipeTop - q.topPipeBottom > PIPE_GAP_NORMAL

\* ------------------------------------------------------------------------
\* C13: every Plain obstacle produced by createNormalPipe, whatever the
\* random draw, has gapBottom - gapTop = 200 and its gap inside the pipe
\* band: PIPE_AREA_TOP <= gapTop and gapBottom <= PIPE_AREA_BOTTOM.
\* ------------------------------------------------------------------------
C13_GapContainment ==
  \A i \in 1..Len(state.pipes):
    state.pipes[i].type = "normal" =>
      /\ state.pipes[i].gapBottom - state.pipes[i].gapTop = 200
      /\ PIPE_AREA_TOP <= state.pipes[i].gapTop
      /\ state.pipes[i].gapBottom <= PIPE_AREA_BOTTOM

\* a draw close to 1: the gap ends within two pixels of the band's bottom
C13_Witness ==
  \E i \in 1..Len(state.pipes):
    /\ state.pipes[i].type = "normal"
    /\ state.pipes[i].gapBottom >= PIPE_AREA_BOTTOM - 2
    /\ state.pipes[i].gapBottom - state.pipes[i].gapTop = PIPE_GAP_NORMAL

\* ------------------------------------------------------------------------
\* C14: while the current chapter has no question the engine is not in
\* chapter_intro, auto_fly or playing, and the obstacle list holds no
\* Question obstacle.
\* ------------------------------------------------------------------------
C14_MalformedGuard ==
  Len(currentChapter) = 0 =>
    /\ state.phase \notin {"chapter_intro", "auto_fly", "playing"}
    /\ \A i \in 1..Len(state.pipes): state.pipes[i].type # "question"

\* ------------------------------------------------------------------------
\* C15: when the chapters prop is absent or an empty list the engine plays
\* the built-in sample chapters, and otherwise the list it was given; the
\* chapter list read by the game loop and by createInitialScore is never
\* empty: the current chapter exists and the score has one entry per chapter.
\* ------------------------------------------------------------------------
C15_SupplyFallback ==
  /\ (~propChapters.given \/ propChapters.list = << >>) =>
       chapters = << <<TRUE, FALSE, TRUE, FALSE>>, <<FALSE, TRUE, TRUE, TRUE>>,
                     <<TRUE, FALSE, TRUE, TRUE>> >>
  /\ (propChapters.given /\ propChapters.list # << >>) => chapters = propChapters.list
  /\ chapters # << >>
  /\ state.chapterIndex + 1 \in DOMAIN chapters
  /\ Len(state.score.chapterScores) = Len(chapters)
  /\ state.score.totalQuestions > 0

\* an empty list was supplied and the second sample question is in play
C15_Witness ==
  /\ propChapters = Supplied(<< >>)
  /\ state.phase = "playing"
  /\ state.questionIndex = 1
  /\ Len(chapters) = 3
  /\ state.score.totalQuestions = 12
  /\ \E i \in 1..Len(state.pipes): state.pipes[i].type = "question"

\* ------------------------------------------------------------------------
\* C16: once the asset load has failed the phase is loading and stays so:
\* the game loop is never started, the game state is the one of
\* construction, and no step, input included, changes it.
\* ------------------------------------------------------------------------
C16_AssetFailureStops ==
  /\ [](assets = "failed" =>
          /\ state.phase = "loading"
          /\ ~loopAlive
          /\ state.pipes = << >>
          /\ state.displayScore = 0
          /\ state.score.totalCorrect = 0
          /\ state.chapterIndex = 0
          /\ state.questionIndex = 0)
  /\ [][assets = "failed" =>
          (assets' = "failed" /\ state' = state /\ loopAlive' = loopAlive)]_vars

\* the load has failed and a primary action has been received in loading
C16_Witness ==
  /\ assets = "failed"
  /\ state.phase = "loading"
  /\ sinceInput = 0
  /\ sinceJump = 0

\* ------------------------------------------------------------------------
\* C17: a step changes the phase only along one of the thirteen edges
\* loading->chapter_intro, chapter_intro->ready_to_play,
\* ready_to_play->auto_fly, auto_fly->playing, playing->question_preview,
\* question_preview->playing, playing->game_over,
\* question_preview->game_over, game_over->playing,
\* playing->chapter_complete, chapter_complete->chapter_intro,
\* chapter_complete->game_complete, game_complete->chapter_intro.
\* ------------------------------------------------------------------------
C17_Edges ==
  { <<"loading", "chapter_intro">>, <<"chapter_intro", "ready_to_play">>,
    <<"ready_to_play", "auto_fly">>, <<"auto_fly", "playing">>,
    <<"playing", "question_preview">>, <<"question_preview", "playing">>,
    <<"playing", "game_over">>, <<"question_preview", "game_over">>,
    <<"game_over", "playing">>, <<"playing", "chapter_complete">>,
    <<"chapter_complete", "chapter_intro">>, <<"chapter_complete", "game_complete">>,
    <<"game_complete", "chapter_intro">> }

C17_PhaseGraph ==
  [][state'.phase # state.phase => <<state.phase, state'.phase>> \in C17_Edges]_vars

\* a run that has used the crash, resume, preview and chapter edges and has
\* reached the end of a two-chapter game
C17_Witness ==
  /\ state.phase = "game_complete"
  /\ Len(chapters) = 2
  /\ state.chapterIndex = 1
  /\ retries >= 1
  /\ sinceInput = 0

\* ------------------------------------------------------------------------
\* C18: a Question obstacle enters the obstacle list only in the frame that
\* ends a preview which has lasted its full duration: auto_fly after at
\* least 4000 ms, or question_preview after at least 3000 ms; the question
\* is displayed throughout both phases, and the frame hands control to
\* playing.  No input and no other frame adds a Question obstacle, before or
\* after a resume.
\* ------------------------------------------------------------------------
C18_Spawned ==
  /\ \E j \in 1..Len(state'.pipes):
       state'.pipes[j].type = "question" /\ state'.pipes[j].x = PIPE_SPAWN_X
  /\ ~\E i \in 1..Len(state.pipes):
       state.pipes[i].type = "question" /\ state.pipes[i].x = PIPE_SPAWN_X

C18_ReadBeforeRespond ==
  /\ [](state.phase \in {"auto_fly", "question_preview"} => state.currentQuestionActive)
  /\ [][C18_Spawned =>
          /\ ~InputStep
          /\ state'.phase = "playing"
          /\ \/ /\ state.phase = "auto_fly"
                /\ state.questionIndex = 0
                /\ \E ms \in FrameDurations: elapsed + ms >= 4000
             \/ /\ state.phase = "question_preview"
                /\ \E ms \in FrameDurations: elapsed + ms >= 3000]_vars

\* the first question of the game has been posed again after a crash: its
\* obstacle has just spawned at the end of a question_preview
C18_Witness ==
  /\ state.phase = "playing"
  /\ retries >= 1
  /\ state.chapterIndex = 0
  /\ state.questionIndex = 0
  /\ elapsed = 0
  /\ \E i \in 1..Len(state.pipes):
       /\ state.pipes[i].type = "question"
       /\ state.pipes[i].x = PIPE_SPAWN_X
       /\ ~state.pipes[i].questionAnswered

\* ------------------------------------------------------------------------
\* C19: a frame of playing or question_preview whose physics update takes
\* the bird above PLAY_AREA_TOP or its lower edge below PLAY_AREA_BOTTOM ends
\* in game_over with the bird left where the update put it; hence in every
\* state of playing or question_preview 0 <= bird.y and
\* bird.y + BIRD_HEIGHT <= 512.
\* ------------------------------------------------------------------------
C19_VerticalBand ==
  /\ [](state.phase \in FlightPhases =>
          (0 <= state.bird.y /\ state.bird.y + BIRD_HEIGHT * YUnit <= 512 * YUnit))
  /\ [][(state.phase \in FlightPhases /\ ~InputStep /\ state' # state) =>
          \E ms \in FrameDurations:
            LET after == Physics(state.bird, deltaTime2(ms))
            IN (after.y < 0 \/ after.y + BIRD_HEIGHT * YUnit > 512 * YUnit) =>
                 (state'.phase = "game_over" /\ state'.bird = after)]_vars

\* the frame that took the bird through the floor has ended the run and has
\* left the bird below the band
C19_Witness ==
  /\ state.phase = "game_over"
  /\ state.bird.y + BIRD_HEIGHT * YUnit > PLAY_AREA_BOTTOM * YUnit
  /\ state.bird.velocity > 0

\* ------------------------------------------------------------------------
\* C20: an input in chapter_complete, when a chapter remains, adds 1 to
\* chapterIndex, sets questionIndex to 0, empties the obstacle list, puts the
\* plain-obstacle counter back to its chapter-start value, clears the
\* active-question flag and sets the phase to chapter_intro, and changes
\* nothing else (the Score aggregate, displayScore and the bird are kept);
\* on the last chapter it sets the phase to game_complete and changes
\* nothing else.
\* ------------------------------------------------------------------------
C20_ChapterAdvance ==
  [][(state.phase = "chapter_complete" /\ InputStep) =>
       IF state.chapterIndex + 1 < Len(chapters)
       THEN /\ state' = [state EXCEPT !.chapterIndex = state.chapterIndex + 1,
                                      !.questionIndex = 0,
                                      !.pipes = << >>,
                                      !.pipesSinceLastQuestion = 5,
                                      !.currentQuestionActive = FALSE,
                                      !.phase = "chapter_intro"]
            /\ state'.score = state.score
            /\ state'.displayScore = state.displayScore
       ELSE state' = [state EXCEPT !.phase = "game_complete"]]_vars

\* the second chapter has just been opened with the first chapter's score
C20_Witness ==
  /\ state.phase = "chapter_intro"
  /\ state.chapterIndex = 1
  /\ state.questionIndex = 0
  /\ state.pipes = << >>
  /\ sinceInput = 0
  /\ elapsed = 0
  /\ state.displayScore > 0
  /\ state.score.totalCorrect > 0
  /\ state.score.chapterScores[1].correct > 0

\* ------------------------------------------------------------------------
\* C21: a primary-action input never changes the game state at the moment
\* it arrives: it is queued, and its effect (a phase change or a jump
\* impulse) is applied at the next frame boundary.
\* ------------------------------------------------------------------------
C21_InputDeferred ==
  [][InputStep => state' = state]_vars

\* ------------------------------------------------------------------------
\* C22: in playing and question_preview every frame applies
\* velocity += GRAVITY*dt and then y += velocity*dt, dt clamped to
\* MAX_DELTA_TIME, and nothing else moves the bird in such a frame. After n
\* frames of flight from rest with no impulse (all frames here are clamped
\* to MAX_DELTA_TIME) the velocity is n*GRAVITY*dt and the position is the
\* sum of the scheme, y0 + GRAVITY*dt^2*n*(n+1)/2. The continuous integral
\* y0 + GRAVITY*(n*dt)^2/2 is another value (C22_ContinuousIntegral).
\* Positions are in 1/16 px, velocities in 1/8 px per frame, dt in halves.
\* ------------------------------------------------------------------------
C22_FrameLaw ==
  (state.phase \in FlightPhases /\ FrameStep) =>
    \E ms \in FrameDurations:
      LET dt2 == deltaTime2(ms)
      IN /\ dt2 <= MAX_DELTA_TIME_2
         /\ 2 * state'.bird.velocity = 2 * state.bird.velocity + GRAVITY_8 * dt2
         /\ state'.bird.y = state.bird.y + state'.bird.velocity * dt2

C22_ClosedForm ==
  (freeFall.n >= 0 /\ state.phase \in FlightPhases) =>
    /\ 2 * state.bird.velocity = freeFall.n * GRAVITY_8 * MAX_DELTA_TIME_2
    /\ 4 * (state.bird.y - freeFall.y0) =
         GRAVITY_8 * MAX_DELTA_TIME_2 * MAX_DELTA_TIME_2 * freeFall.n * (freeFall.n + 1)

C22_PhysicsDeterminism ==
  []C22_ClosedForm /\ [][C22_FrameLaw]_vars

\* the original statement read as the integral of constant gravity over the
\* elapsed time n*dt
C22_ContinuousIntegral ==
  (freeFall.n >= 0 /\ state.phase \in FlightPhases) =>
    4 * (state.bird.y - freeFall.y0) =
      GRAVITY_8 * MAX_DELTA_TIME_2 * MAX_DELTA_TIME_2 * freeFall.n * freeFall.n

\* a long fall from rest during a question preview
C22_Witness ==
  /\ state.phase = "question_preview"
  /\ freeFall.n >= 10
  /\ state.bird.velocity >= 10 * ((GRAVITY_8 * MAX_DELTA_TIME_2) \div 2)

\* ------------------------------------------------------------------------
\* C23: a frame assigns the phase at most once: the phase at its end is the
\* phase at its start or the target of the single transition it took (never
\* game_over and then playing in one frame).
\* ------------------------------------------------------------------------
C23_SingleTransition ==
  phaseWrites <= 1

\* ------------------------------------------------------------------------
\* C24: a frame of playing whose bounds check passes moves to
\* question_preview if and only if pipesSinceLastQuestion >= 5, no Question
\* obstacle with passed = false is in the list and questionIndex is below
\* the chapter's question count; that frame moves, spawns, scores and
\* collision-tests no obstacle: besides the bird's physics it changes only
\* the phase and the active-question flag.
\* ------------------------------------------------------------------------
C24_Due ==
  /\ state.pipesSinceLastQuestion >= NORMAL_PIPES_BETWEEN_QUESTIONS
  /\ \A i \in 1..Len(state.pipes):
       ~(state.pipes[i].type = "question" /\ ~state.pipes[i].passed)
  /\ state.questionIndex < Len(chapters[state.chapterIndex + 1])

C24_PreviewTrigger ==
  [][(state.phase = "playing" /\ FrameStep /\ ~OutOfBounds(state'.bird)) =>
       /\ (state'.phase = "question_preview") <=> C24_Due
       /\ C24_Due =>
            /\ state' = [state EXCEPT !.bird = state'.bird,
                                      !.phase = "question_preview",
                                      !.currentQuestionActive = TRUE]
            /\ elapsed' = 0]_vars

\* the preview of a later question has just been triggered with obstacles
\* on the screen
C24_Witness ==
  /\ state.phase = "question_preview"
  /\ elapsed = 0
  /\ phaseWrites = 1
  /\ state.currentQuestionActive
  /\ state.pipesSinceLastQuestion >= NORMAL_PIPES_BETWEEN_QUESTIONS
  /\ state.questionIndex >= 1
  /\ state.pipes # << >>
  /\ ~OutOfBounds(state.bird)

\* ------------------------------------------------------------------------
\* C25: when the trailing edge of a not yet passed Question obstacle drops
\* below the bird's left edge in a frame of playing (that does not end in a
\* crash), the obstacle becomes passed, pipesSinceLastQuestion becomes 0
\* and the active-question flag false; questionIndex grows by exactly 1
\* when the question is not the chapter's last, otherwise the phase becomes
\* chapter_complete and questionIndex is kept. The frame changes neither
\* displayScore nor the Score aggregate, answered or not.
\* ------------------------------------------------------------------------
C25_Crossing(i) ==
  /\ state.pipes[i].type = "question"
  /\ ~state.pipes[i].passed
  /\ \E ms \in FrameDurations:
       MovePipe(state.pipes[i], deltaTime2(ms)).x + PIPE_WIDTH < BIRD_LEFT

C25_QuestionPass ==
  [][(/\ state.phase = "playing"
      /\ FrameStep
      /\ state'.phase # "game_over"
      /\ \E i \in 1..Len(state.pipes): C25_Crossing(i)) =>
       /\ \E j \in 1..Len(state'.pipes):
            state'.pipes[j].type = "question" /\ state'.pipes[j].passed
       /\ state'.pipesSinceLastQuestion = 0
       /\ ~state'.currentQuestionActive
       /\ IF state.questionIndex < Len(chapters[state.chapterIndex + 1]) - 1
          THEN /\ state'.questionIndex = state.questionIndex + 1
               /\ state'.phase = "playing"
          ELSE /\ state'.questionIndex = state.questionIndex
               /\ state'.phase = "chapter_complete"
       /\ state'.displayScore = state.displayScore
       /\ state'.score = state.score]_vars

\* an answered Question obstacle that was not the chapter's last has just
\* been passed
C25_Witness ==
  /\ state.phase = "playing"
  /\ state.questionIndex = 1
  /\ state.pipesSinceLastQuestion = 0
  /\ ~state.currentQuestionActive
  /\ state.displayScore > 0
  /\ \E i \in 1..Len(state.pipes):
       /\ state.pipes[i].type = "question"
       /\ state.pipes[i].passed
       /\ state.pipes[i].questionAnswered
       /\ state.pipes[i].x + PIPE_WIDTH + PIPE_SPEED * 2 > BIRD_LEFT

\* ------------------------------------------------------------------------
\* C26: a frame of question_preview (whose bounds check passes) spawns no
\* obstacle before the preview time is over; it moves every obstacle left
\* and tests each against the bird: game_over is assigned exactly when a
\* moved obstacle collides, and otherwise the list is the moved list
\* without the obstacles that left the screen (plus the Question obstacle
\* in the frame that ends the preview); every Plain obstacle that becomes
\* passed adds 1 to displayScore and 1 to pipesSinceLastQuestion, and the
\* Score aggregate is not touched.
\* ------------------------------------------------------------------------
C26_dt2 == deltaTime2(CHOOSE ms \in FrameDurations: TRUE)

C26_Moved == [i \in 1..Len(state.pipes) |-> MovePipe(state.pipes[i], C26_dt2)]

C26_Crossing ==
  { i \in 1..Len(state.pipes):
      /\ state.pipes[i].type = "normal"
      /\ ~state.pipes[i].passed
      /\ C26_Moved[i].x + PIPE_WIDTH < BIRD_LEFT }

C26_Frame ==
  LET kept == OnScreen(C26_Moved)
      hit == \E i \in 1..Len(state.pipes): checkCollision(state'.bird, C26_Moved[i])
      ends == \E ms \in FrameDurations: elapsed + ms >= QUESTION_PREVIEW_TIME
  IN /\ hit <=> (state'.phase = "game_over" \/ phaseWrites' = 2)
     /\ ~ends => Len(state'.pipes) <= Len(state.pipes)
     /\ ~hit =>
          /\ Len(state'.pipes) = Len(kept) + (IF ends THEN 1 ELSE 0)
          /\ \A j \in 1..Len(kept):
               /\ state'.pipes[j].x = kept[j].x
               /\ state'.pipes[j].type = kept[j].type
          /\ state'.displayScore = state.displayScore + Cardinality(C26_Crossing)
          /\ state'.pipesSinceLastQuestion =
               state.pipesSinceLastQuestion + Cardinality(C26_Crossing)
          /\ state'.score = state.score

C26_PreviewObstacles ==
  [][(state.phase = "question_preview" /\ FrameStep /\ ~OutOfBounds(state'.bird))
       => C26_Frame]_vars

\* the frame that ended a preview (and spawned the Question obstacle) has
\* also credited a Plain obstacle that went behind the bird in it
C26_Witness ==
  /\ state.phase = "playing"
  /\ elapsed = 0
  /\ phaseWrites = 1
  /\ state.currentQuestionActive
  /\ state.pipesSinceLastQuestion > NORMAL_PIPES_BETWEEN_QUESTIONS
  /\ state.pipes # << >>
  /\ state.pipes[Len(state.pipes)] = createQuestionPipe
  /\ \E i \in 1..Len(state.pipes):
       /\ state.pipes[i].type = "normal"
       /\ state.pipes[i].passed
       /\ state.pipes[i].scored
       /\ state.pipes[i].x + PIPE_WIDTH + PIPE_SPEED * 2 > BIRD_LEFT

\* ------------------------------------------------------------------------
\* C27: a frame of chapter_intro goes to ready_to_play exactly when more
\* than 3000 ms have elapsed since the phase was entered, a frame of
\* auto_fly goes to playing exactly when at least 4000 ms have elapsed, and
\* a frame of question_preview goes to playing only when at least 3000 ms
\* have elapsed, and does so at the first such frame unless the bird leaves
\* the play band in it (that frame ends in game_over). Inputs received in
\* these phases change neither the phase nor the phase clock.
\* ------------------------------------------------------------------------
C27_Frame ==
  \E ms \in FrameDurations:
    LET e == elapsed + ms
    IN /\ state.phase = "chapter_intro" =>
            state'.phase = (IF e > CHAPTER_INTRO_TIME THEN "ready_to_play" ELSE "chapter_intro")
       /\ state.phase = "auto_fly" =>
            state'.phase = (IF e >= AUTO_FLY_TIME THEN "playing" ELSE "auto_fly")
       /\ state.phase = "question_preview" =>
            /\ state'.phase = "playing" => e >= QUESTION_PREVIEW_TIME
            /\ (e >= QUESTION_PREVIEW_TIME /\ ~OutOfBounds(state'.bird)) =>
                 state'.phase = "playing"

C27_TimedPhases ==
  [][/\ FrameStep => C27_Frame
     /\ (InputStep /\ state.phase \in TimedPhases) =>
          (state'.phase = state.phase /\ elapsed' = elapsed)]_vars

\* the original statement: the preview ends in playing at the first frame
\* at which 3000 ms have elapsed
C27_PreviewEndsAtFirstTick ==
  [][(state.phase = "question_preview" /\ FrameStep
        /\ \E ms \in FrameDurations: elapsed + ms >= QUESTION_PREVIEW_TIME)
       => state'.phase = "playing"]_vars

\* an input has arrived in a chapter intro that has lasted exactly 3000 ms
\* and has not been left
C27_Witness ==
  /\ state.phase = "chapter_intro"
  /\ elapsed = CHAPTER_INTRO_TIME
  /\ sinceInput = 0

\* ------------------------------------------------------------------------
\* C28: an input received in playing or question_preview sets the bird's
\* velocity to -JUMP_STRENGTH whenever at least 150 ms have passed since
\* the last impulse that was actually applied; an input that applied no
\* impulse (a tap in auto_fly or chapter_intro) starts no cooldown.
\* ------------------------------------------------------------------------
C28_JumpAvailable ==
  [][(InputStep /\ state.phase \in FlightPhases /\ impulseAge >= JUMP_COOLDOWN) =>
       state'.bird.velocity = -JUMP_STRENGTH_8]_vars

\* ------------------------------------------------------------------------
\* C29: while the phase is auto_fly the obstacle list is empty and the
\* bird's y is within 40 px of the centre of the play band; a step from
\* auto_fly leads to auto_fly or playing (never game_over), and an input in
\* auto_fly changes nothing of the game state. A step from ready_to_play
\* leads to ready_to_play or auto_fly, and its frames keep the velocity and
\* hold the bird within 3 px of the centre (no gravity).
\* ------------------------------------------------------------------------
C29_Near(y, px) ==
  /\ y >= (BirdCentreY - px) * YUnit
  /\ y <= (BirdCentreY + px) * YUnit

C29_Scripted ==
  state.phase = "auto_fly" =>
    /\ state.pipes = << >>
    /\ C29_Near(state.bird.y, FLY_AMPLITUDE)
    /\ state.bird.velocity = 0

C29_Step ==
  /\ state.phase = "auto_fly" =>
       /\ state'.phase \in {"auto_fly", "playing"}
       /\ InputStep => state' = state
  /\ state.phase = "ready_to_play" =>
       /\ state'.phase \in {"ready_to_play", "auto_fly"}
       /\ state'.bird.velocity = state.bird.velocity
       /\ FrameStep =>
            /\ state'.phase = "ready_to_play"
            /\ C29_Near(state'.bird.y, BOB_AMPLITUDE)

C29_AutoFlySafe ==
  []C29_Scripted /\ [][C29_Step]_vars

\* an input has just arrived during the scripted flight, with the bird at
\* the top of its path
C29_Witness ==
  /\ state.phase = "auto_fly"
  /\ elapsed > 0
  /\ sinceInput = 0
  /\ state.bird.y = (BirdCentreY - FLY_AMPLITUDE) * YUnit

\* ------------------------------------------------------------------------
\* C30: once the questionAnswered flag of a Question obstacle is set, the
\* obstacle changes the Score aggregate and displayScore no more: a frame
\* of a flight phase that starts with every Question obstacle of the list
\* answered leaves the chapter's correct counter and totalCorrect as they
\* are and adds to displayScore only the credit of Plain obstacles that go
\* behind the bird. The frame that sets the flag advances nothing
\* (questionIndex and the phase are kept), and in later frames the obstacle
\* stays in the list, answered, until it has left the screen.
\* ------------------------------------------------------------------------
C30_dt2 == deltaTime2(CHOOSE ms \in FrameDurations: TRUE)

C30_PlainCrossing ==
  { i \in 1..Len(state.pipes):
      /\ state.pipes[i].type = "normal"
      /\ ~state.pipes[i].passed
      /\ MovePipe(state.pipes[i], C30_dt2).x + PIPE_WIDTH < BIRD_LEFT }

C30_Answered(pipes) ==
  { i \in 1..Len(pipes): pipes[i].type = "question" /\ pipes[i].questionAnswered }

C30_Step ==
  (state.phase \in FlightPhases /\ FrameStep) =>
    /\ (C30_Answered(state.pipes) # {} /\ UnansweredQuestions(state.pipes) = {}) =>
         /\ state'.score = state.score
         /\ state'.displayScore >= state.displayScore
         /\ state'.displayScore <= state.displayScore + Cardinality(C30_PlainCrossing)
    /\ (UnansweredQuestions(state.pipes) # {} /\ C30_Answered(state'.pipes) # {}) =>
         /\ state'.questionIndex = state.questionIndex
         /\ state'.phase = "playing"
         /\ state'.currentQuestionActive = state.currentQuestionActive
    /\ \A i \in C30_Answered(state.pipes):
         \/ MovePipe(state.pipes[i], C30_dt2).x + PIPE_WIDTH <= OFFSCREEN_X
         \/ C30_Answered(state'.pipes) # {}

C30_AnswerLock ==
  [][C30_Step]_vars

\* a frame has run with the bird still inside the YES slot of an obstacle
\* that was answered in an earlier frame
C30_Witness ==
  /\ state.phase = "playing"
  /\ sinceInput > 0
  /\ \E i \in 1..Len(state.pipes):
       /\ state.pipes[i].type = "question"
       /\ state.pipes[i].questionAnswered
       /\ ~state.pipes[i].passed
       /\ HorizontalOverlap(state.pipes[i])
       /\ state.pipes[i].x < BIRD_LEFT
       /\ InYes(state.bird, state.pipes[i])

\* ------------------------------------------------------------------------
\* C31: the frame that registers an incorrect answer sets displayScore to
\* max(0, displayScore - 2) and leaves the Score aggregate unchanged; with
\* +1 per Plain pass and +5 per correct answer, displayScore >= 0 in every
\* reachable state.
\* ------------------------------------------------------------------------
C31_WrongAnswer(q) ==
  LET yes == InYes(state'.bird, q)
      no == InNo(state'.bird, q)
  IN (q.questionAnswered /\ HorizontalOverlap(q) /\ (yes \/ no) /\ currentQuestion # yes) =>
       /\ state'.displayScore = Max(0, state.displayScore - 2)
       /\ state'.score = state.score

C31_Step ==
  (state.phase = "playing" /\ FrameStep) =>
    \A i \in 1..Len(state.pipes): \A j \in 1..Len(state'.pipes):
      ( /\ state.pipes[i].type = "question"
        /\ ~state.pipes[i].questionAnswered
        /\ MovedTo(state.pipes[i], state'.pipes[j]) )
      => C31_WrongAnswer(state'.pipes[j])

C31_PenaltyFloor ==
  [](state.displayScore >= 0) /\ [][C31_Step]_vars

\* a wrong answer has just been registered with less than 2 points to take:
\* the display score is held at 0
C31_Witness ==
  /\ state.phase = "playing"
  /\ state.displayScore = 0
  /\ <<state.chapterIndex, state.questionIndex>> \notin answeredCorrect
  /\ \E i \in 1..Len(state.pipes):
       /\ state.pipes[i].type = "question"
       /\ state.pipes[i].questionAnswered
       /\ ~state.pipes[i].passed
       /\ HorizontalOverlap(state.pipes[i])
       /\ state.pipes[i].x + PIPE_SPEED * 2 > BIRD_LEFT + BIRD_WIDTH
       /\ \/ InYes(state.bird, state.pipes[i]) /\ ~currentQuestion
          \/ InNo(state.bird, state.pipes[i]) /\ currentQuestion

\* ------------------------------------------------------------------------
\* C32: within one run (every step but the restart from game_complete) the
\* chapters' totals and totalQuestions never change, and the chapters'
\* correct counters and totalCorrect change only in a playing frame that
\* registers a correct answer, which adds 1 to the current chapter's
\* counter and 1 to totalCorrect; in every reachable state totalCorrect is
\* the sum of the chapters' correct counters and totalQuestions the sum of
\* their totals.
\* ------------------------------------------------------------------------
RECURSIVE C32_Sum(_, _)
C32_Sum(cs, field) ==
  IF cs = << >> THEN 0 ELSE Head(cs)[field] + C32_Sum(Tail(cs), field)

C32_Sums ==
  /\ state.score.totalCorrect = C32_Sum(state.score.chapterScores, "correct")
  /\ state.score.totalQuestions = C32_Sum(state.score.chapterScores, "total")

C32_CorrectAnswerRegistered ==
  /\ state.phase = "playing"
  /\ FrameStep
  /\ \E i \in 1..Len(state.pipes): \E j \in 1..Len(state'.pipes):
       /\ state.pipes[i].type = "question"
       /\ ~state.pipes[i].questionAnswered
       /\ MovedTo(state.pipes[i], state'.pipes[j])
       /\ state'.pipes[j].questionAnswered
       /\ currentQuestion = InYes(state'.bird, state'.pipes[j])

C32_Step ==
  ~(state.phase = "game_complete" /\ InputStep) =>
    /\ state'.score.totalQuestions = state.score.totalQuestions
    /\ Len(state'.score.chapterScores) = Len(state.score.chapterScores)
    /\ \A c \in 1..Len(state.score.chapterScores):
         /\ state'.score.chapterScores[c].total = state.score.chapterScores[c].total
         /\ state'.score.chapterScores[c].correct >= state.score.chapterScores[c].correct
    /\ state'.score.totalCorrect >= state.score.totalCorrect
    /\ state'.score # state.score =>
         /\ C32_CorrectAnswerRegistered
         /\ state'.score =
              [state.score EXCEPT !.chapterScores[state.chapterIndex + 1].correct = @ + 1,
                                  !.totalCorrect = @ + 1]

C32_ScoreConsistency ==
  []C32_Sums /\ [][C32_Step]_vars

\* correct answers have been credited in two chapters
C32_Witness ==
  /\ Len(state.score.chapterScores) = 2
  /\ state.score.chapterScores[1].correct >= 1
  /\ state.score.chapterScores[2].correct >= 1
  /\ state.score.totalCorrect >= 2
  /\ state.phase \in {"playing", "chapter_complete"}

\* ------------------------------------------------------------------------
\* C33: an obstacle that is new in the list after a step is the only new
\* one (at most one spawn per frame); a new Plain obstacle appears only in
\* a frame of playing that started with the list empty or with the last
\* (most recently spawned) obstacle at x < CANVAS_WIDTH - 180, and with no
\* unanswered Question obstacle in the list; it is created at PIPE_SPAWN_X
\* at the end of the list (and is moved with the others in the frame that
\* spawns it).
\* ------------------------------------------------------------------------
C33_New ==
  { j \in 1..Len(state'.pipes):
      \A i \in 1..Len(state.pipes):
        ~( /\ state'.pipes[j].type = state.pipes[i].type
           /\ \/ state'.pipes[j].x = state.pipes[i].x
              \/ MovedTo(state.pipes[i], state'.pipes[j]) ) }

C33_Step ==
  /\ Cardinality(C33_New) <= 1
  /\ \A j \in C33_New:
       state'.pipes[j].type = "normal" =>
         /\ state.phase = "playing"
         /\ FrameStep
         /\ \/ state.pipes = << >>
            \/ state.pipes[Len(state.pipes)].x < CANVAS_WIDTH - SPAWN_SPACING
         /\ UnansweredQuestions(state.pipes) = {}
         /\ j = Len(state'.pipes)
         /\ \/ state'.pipes[j].x = PIPE_SPAWN_X
            \/ MovedTo([state'.pipes[j] EXCEPT !.x = PIPE_SPAWN_X], state'.pipes[j])

C33_PlainSpawn ==
  [][C33_Step]_vars

\* a Plain obstacle has just been spawned behind an obstacle that had
\* advanced past the spacing threshold
C33_Witness ==
  /\ state.phase = "playing"
  /\ Len(state.pipes) >= 2
  /\ state.pipes[Len(state.pipes)].type = "normal"
  /\ MovedTo([state.pipes[Len(state.pipes)] EXCEPT !.x = PIPE_SPAWN_X],
             state.pipes[Len(state.pipes)])
  /\ state.pipes[Len(state.pipes) - 1].x < CANVAS_WIDTH - SPAWN_SPACING
  /\ state.pipes[Len(state.pipes) - 1].type = "question"
  /\ state.pipes[Len(state.pipes) - 1].passed

\* ------------------------------------------------------------------------
\* C34: the time factor being clamped to MAX_DELTA_TIME, a frame of a
\* flight phase moves every obstacle left by at most 3 px, and an obstacle
\* that moved has been collision-tested at its new place (if it collides
\* there, game_over is assigned in that frame); inputs move no obstacle.
\* Hence an obstacle is marked passed only by a frame that found it inside
\* the horizontal range of the bird's box, where the frame before had
\* tested it: none jumps over the bird. The list is kept in spawn order: a
\* frame drops obstacles at its head (those that left the screen) and adds
\* at most one at its end.
\* ------------------------------------------------------------------------
C34_Reach == (PIPE_SPEED * MAX_DELTA_TIME_2) \div 2

C34_CrashAssigned == state'.phase = "game_over" \/ phaseWrites' = 2

C34_Pair(p, q) ==
  /\ q.type = p.type
  /\ p.x - q.x \in 0..C34_Reach
  /\ (q.x # p.x /\ checkCollision(state'.bird, q)) => C34_CrashAssigned
  /\ (q.passed /\ ~p.passed) =>
       /\ q.x # p.x
       /\ p.x <= BIRD_LEFT + BIRD_WIDTH
       /\ p.x + PIPE_WIDTH >= BIRD_LEFT

C34_Frame ==
  LET n == Len(state.pipes)
  IN \E k \in 0..n: \E a \in 0..1:
       /\ Len(state'.pipes) = n - k + a
       /\ \A j \in 1..(n - k): C34_Pair(state.pipes[j + k], state'.pipes[j])
       /\ \A i \in 1..k: state.pipes[i].passed

C34_Step ==
  /\ (state.phase \in FlightPhases /\ FrameStep) => C34_Frame
  /\ InputStep =>
       \A j \in 1..Len(state'.pipes): \E i \in 1..Len(state.pipes):
         state'.pipes[j] = state.pipes[i]

C34_NoTunneling ==
  [][C34_Step]_vars

\* a frame has just marked passed an obstacle that went behind the bird
\* while the bird was inside its gap
C34_Witness ==
  /\ state.phase = "playing"
  /\ sinceInput > 0
  /\ \E i \in 1..Len(state.pipes):
       /\ state.pipes[i].type = "normal"
       /\ state.pipes[i].passed
       /\ state.pipes[i].x + PIPE_WIDTH + C34_Reach >= BIRD_LEFT
       /\ state.bird.y > state.pipes[i].gapTop * YUnit
       /\ state.bird.y + BIRD_HEIGHT * YUnit < state.pipes[i].gapBottom * YUnit

\* ------------------------------------------------------------------------
\* C35: in every reachable state, after any sequence of answers, crashes
\* and retries, each chapter's correct counter is at most that chapter's
\* total and totalCorrect is at most totalQuestions.
\* ------------------------------------------------------------------------
C35_ScoreBound ==
  /\ \A c \in 1..Len(state.score.chapterScores):
       state.score.chapterScores[c].correct <= state.score.chapterScores[c].total
  /\ state.score.totalCorrect <= state.score.totalQuestions

\* ------------------------------------------------------------------------
\* C36: questionIndex changes only in a playing frame in which a Question
\* obstacle becomes passed (by +1) or by the input that advances the
\* chapter or restarts the game (to 0). While a question is active in
\* playing (an unpassed Question obstacle is in the list, or the flag is
\* set and the resume has removed the obstacle) pipesSinceLastQuestion is
\* at least 5; so a playing frame that finds the active question without
\* its obstacle (and the bird in the band) re-enters question_preview for
\* the same question and spawns nothing.
\* ------------------------------------------------------------------------
C36_Unpassed(pipes) ==
  { i \in 1..Len(pipes): pipes[i].type = "question" /\ ~pipes[i].passed }

C36_CounterKept ==
  /\ C36_Unpassed(state.pipes) # {} =>
       state.pipesSinceLastQuestion >= NORMAL_PIPES_BETWEEN_QUESTIONS
  /\ (state.phase = "playing" /\ state.currentQuestionActive) =>
       state.pipesSinceLastQuestion >= NORMAL_PIPES_BETWEEN_QUESTIONS

C36_Step ==
  /\ state'.questionIndex # state.questionIndex =>
       \/ /\ state.phase = "playing"
          /\ FrameStep
          /\ state'.questionIndex = state.questionIndex + 1
          /\ C36_Unpassed(state.pipes) # {}
          /\ C36_Unpassed(state'.pipes) = {}
       \/ /\ state.phase \in {"chapter_complete", "game_complete"}
          /\ InputStep
          /\ state'.questionIndex = 0
  /\ (state.phase = "game_over" /\ InputStep) =>
       /\ state'.questionIndex = state.questionIndex
       /\ state'.pipesSinceLastQuestion = state.pipesSinceLastQuestion
       /\ state'.currentQuestionActive = state.currentQuestionActive
  /\ ( /\ state.phase = "playing"
       /\ FrameStep
       /\ state.currentQuestionActive
       /\ C36_Unpassed(state.pipes) = {}
       /\ ~OutOfBounds(state'.bird) ) =>
       /\ state'.phase = "question_preview"
       /\ state'.questionIndex = state.questionIndex
       /\ state'.pipes = state.pipes

C36_NoQuestionLost ==
  []C36_CounterKept /\ [][C36_Step]_vars

\* a question whose obstacle was answered and then removed by the resume
\* is being previewed again
C36_Witness ==
  /\ state.phase = "question_preview"
  /\ elapsed = 0
  /\ phaseWrites = 1
  /\ retries >= 1
  /\ C36_Unpassed(state.pipes) = {}
  /\ <<state.chapterIndex, state.questionIndex>> \in answeredCorrect

\* ------------------------------------------------------------------------
\* C37: for a chapter list whose chapters all have at least one question,
\* every reachable state has 0 <= chapterIndex < number of chapters and
\* 0 <= questionIndex < number of questions of the current chapter, and
\* score.chapterScores has exactly one entry per chapter.
\* ------------------------------------------------------------------------
C37_IndexBounds ==
  (\A c \in 1..Len(chapters): Len(chapters[c]) >= 1) =>
    /\ state.chapterIndex >= 0
    /\ state.chapterIndex < Len(chapters)
    /\ state.questionIndex >= 0
    /\ state.questionIndex < Len(chapters[state.chapterIndex + 1])
    /\ Len(state.score.chapterScores) = Len(chapters)

\* the last question of the last chapter has been passed
C37_Witness ==
  /\ state.phase = "game_complete"
  /\ Len(chapters) >= 2
  /\ state.chapterIndex = Len(chapters) - 1
  /\ state.questionIndex = Len(chapters[state.chapterIndex + 1]) - 1
  /\ \A c \in 1..Len(chapters): Len(chapters[c]) >= 1

\* ------------------------------------------------------------------------
\* C38: a frame in ready_to_play, game_over, chapter_complete or
\* game_complete changes neither the phase, chapterIndex, questionIndex,
\* the Score aggregate, displayScore nor the obstacle list; these phases
\* are left only by an input; and a frame of game_over leaves the falling
\* bird at y <= PLAY_AREA_BOTTOM - BIRD_HEIGHT.
\* ------------------------------------------------------------------------
C38_Waiting == {"ready_to_play", "game_over", "chapter_complete", "game_complete"}

C38_Step ==
  state.phase \in C38_Waiting =>
    /\ FrameStep =>
         /\ state'.phase = state.phase
         /\ state'.chapterIndex = state.chapterIndex
         /\ state'.questionIndex = state.questionIndex
         /\ state'.score = state.score
         /\ state'.displayScore = state.displayScore
         /\ state'.pipes = state.pipes
         /\ state.phase = "game_over" =>
              state'.bird.y <= (PLAY_AREA_BOTTOM - BIRD_HEIGHT) * YUnit
    /\ state'.phase # state.phase => InputStep

C38_WaitingInert ==
  [][C38_Step]_vars

\* after a crash on the floor a frame has put the bird back on the floor line
C38_Witness ==
  /\ state.phase = "game_over"
  /\ sinceInput > 0
  /\ phaseWrites = 0
  /\ state.bird.y = (PLAY_AREA_BOTTOM - BIRD_HEIGHT) * YUnit
  /\ state.bird.velocity > MaxFallVelocity
  /\ state.pipes # << >>

\* ------------------------------------------------------------------------
\* C39 — Onboarding hand-off liveness: once the quiz generation request has
\* settled and all four loading steps have completed, the onboarding flow
\* eventually invokes onComplete with a non-empty chapter list; it never
\* stays on the loading step forever.
\* ------------------------------------------------------------------------
C39_Settled == onboarding.request.status = "settled" /\ allStepsComplete(onboarding)

C39_HandedOver == onboardingData.given /\ Len(onboardingData.chapters) > 0

C39_HandOff == C39_Settled ~> C39_HandedOver

====
